---- MODULE Spec2Model ----
(***************************************************************************)
(* Model of the Openbank balance manipulator (server.js): the HTML files   *)
(* on disk, the selector-driven extraction and update functions and the    *)
(* two REST handlers GET /api/current-balances and POST                    *)
(* /api/update-balances.                                                   *)
(*                                                                         *)
(* A text is a sequence of one-character strings.  A parsed document is a  *)
(* record holding, for every selector the server uses, the texts of the    *)
(* nodes that selector matches, in document order.  Nodes are leaves:      *)
(* writing one node does not change the text of another.                   *)
(***************************************************************************)
EXTENDS Naturals, Integers, Sequences, FiniteSets, TLC

(***************************************************************************)
(* Bounds                                                                  *)
(***************************************************************************)
MaxNodes == 2
MaxFields == 2
MaxRepeat == 1
MaxLen == 4

(***************************************************************************)
(* Texts and the JavaScript string functions the server applies to them    *)
(***************************************************************************)
Euro == <<"EUR">>
Dots3 == <<".", ".", ".">>
UndefinedText == <<"u", "n", "d", "e", "f", "i", "n", "e", "d">>
EuroSuffix == <<" ", "EUR">>
Digits == {"0", "1", "2", "3", "4", "5", "6", "7", "8", "9"}

StartsWith(s, p) == Len(s) >= Len(p) /\ SubSeq(s, 1, Len(p)) = p

RECURSIVE StripLeadingDots(_)
StripLeadingDots(s) ==
  IF s # <<>> /\ Head(s) = "." THEN StripLeadingDots(Tail(s)) ELSE s

RECURSIVE TrimStart(_)
TrimStart(s) == IF s # <<>> /\ Head(s) = " " THEN TrimStart(Tail(s)) ELSE s

RECURSIVE TrimEnd(_)
TrimEnd(s) ==
  IF s # <<>> /\ s[Len(s)] = " " THEN TrimEnd(SubSeq(s, 1, Len(s) - 1)) ELSE s

Trim(s) == TrimEnd(TrimStart(s))

\* isNaN(parseFloat(s)): parseFloat skips leading white space, accepts an
\* optional sign and then needs a digit, or a dot followed by a digit.
ParseFloatIsNaN(s) ==
  LET t == TrimStart(s)
      u == IF t # <<>> /\ Head(t) \in {"+", "-"} THEN Tail(t) ELSE t
  IN ~ (/\ u # <<>>
        /\ \/ Head(u) \in Digits
           \/ Head(u) = "." /\ Len(u) > 1 /\ u[2] \in Digits)

\* text && !isNaN(parseFloat(text)) && text !== "EUR", on a trimmed text
IsAmountText(text) == text # <<>> /\ ~ParseFloatIsNaN(text) /\ text # Euro

\* String.prototype.replace(pattern, "") with a string pattern: the first
\* occurrence only
RECURSIVE RemoveFirst(_, _)
RemoveFirst(s, p) ==
  IF Len(s) < Len(p) THEN s
  ELSE IF StartsWith(s, p) THEN SubSeq(s, Len(p) + 1, Len(s))
  ELSE <<Head(s)>> \o RemoveFirst(Tail(s), p)

\* cheerio .text() of a selection: the texts of all matched nodes joined
RECURSIVE JoinTexts(_)
JoinTexts(nodes) ==
  IF nodes = <<>> THEN <<>> ELSE Head(nodes) \o JoinTexts(Tail(nodes))

\* x || d
OrDefault(x, d) == IF x # <<>> THEN x ELSE d

\* The "..." prefix rule for card digits
FormatCardDigitsNoStrip(newCardDigits) ==
  IF StartsWith(newCardDigits, Dots3) THEN newCardDigits
  ELSE Dots3 \o newCardDigits

FormatCardDigits(newCardDigits) ==
  IF StartsWith(newCardDigits, Dots3) THEN newCardDigits
  ELSE Dots3 \o StripLeadingDots(newCardDigits)


(***************************************************************************)
(* Files, document types and the field registry                            *)
(***************************************************************************)
HTML_FILES ==
  [openbank |-> "Openbank.html",
   directDebits |-> "Openbank-direct-debits.html",
   cards |-> "Openbank-cards.html",
   transfers |-> "Openbank-transfers.html"]

FileTypes == DOMAIN HTML_FILES

\* HTML files of the project directory: the four registered ones, one more
\* page of the site, and the dashboard itself
FileNames ==
  {HTML_FILES[t] : t \in FileTypes}
    \cup {"Openbank-loans.html", "admin-dashboard.html"}

\* glob.sync("**/*.{html,htm}", {ignore: [...]})
GlobIgnore == {"admin-dashboard.html", "integration-example.html"}

D_430_26 == <<"4", "3", "0", ".", "2", "6">>
D_0_00 == <<"0", ".", "0", "0">>
D_0_00_Euro == <<"0", ".", "0", "0", " ", "EUR">>
D_Card == <<".", ".", ".", "2", "1", "5", "0">>
D_1704 == <<"1", "7", "0", "4">>
D_Alfonso == <<"A", "l", "f", "o", "n", "s", "o">>

\* defaultValue of every registered field
FIELD_CONFIGS ==
  [openbank |->
     [accountTotalBalance |-> D_430_26,
      individualAccountBalance |-> D_0_00,
      totalSavingsBalance |-> D_0_00,
      monthlyExpenses |-> D_0_00_Euro,
      savingsInvestmentsTotal |-> D_0_00,
      totalLending |-> D_0_00,
      cardLastDigits |-> D_Card,
      avatarName |-> D_Alfonso],
   directDebits |->
     [accountsBalanceAmount |-> D_0_00,
      cardLastDigits |-> D_Card,
      availableAmount |-> D_0_00,
      availableCurrency |-> Euro,
      avatarName |-> D_Alfonso],
   cards |->
     [cardLastDigits |-> D_1704,
      avatarName |-> D_Alfonso],
   transfers |->
     [cardLastDigits |-> D_Card,
      avatarName |-> D_Alfonso]]

(***************************************************************************)
(* A parsed document: for each selector, the texts of the matched nodes.   *)
(*   accountTotalElements      .glb-position-financial-card-header-col__amount span span *)
(*   individualAccountElements .glb-position-financial-card-item__amount span span *)
(*   totalSavingsElements      .global-position-total-balance__amount span *)
(*   totalSavingsIn[i]         the phrases ("savings", "lending") found in *)
(*                             the totalbalance-section that encloses node *)
(*                             i of totalSavingsElements ({} when none)    *)
(*   monthlyExpensesElements   .expenses-summary-box__header__expenses--total *)
(*   obCardDigits              .glb-position-financial-card-item__title--small *)
(*   accountsBalanceElement    .accounts-balance__amount                   *)
(*   ddCardDigits              .accounts-box-header__iban                  *)
(*   availableAmountElement    #lblAvailableAmount0                        *)
(*   availableCurrencyElement  #lblAvailableCurrency0                      *)
(*   cardsCardDigits           .card__card-number--... span:last-child     *)
(*   trCardDigits              .dropdown-accounts__account-description-iban *)
(*   accountAmountElements     .dropdown-accounts__account-description-amount span *)
(*   avatarNameElements        .avatar-component__alias span span          *)
(***************************************************************************)
EmptyDoc ==
  [accountTotalElements |-> <<>>,
   individualAccountElements |-> <<>>,
   totalSavingsElements |-> <<>>,
   totalSavingsIn |-> <<>>,
   monthlyExpensesElements |-> <<>>,
   obCardDigits |-> <<>>,
   accountsBalanceElement |-> <<>>,
   ddCardDigits |-> <<>>,
   availableAmountElement |-> <<>>,
   availableCurrencyElement |-> <<>>,
   cardsCardDigits |-> <<>>,
   trCardDigits |-> <<>>,
   accountAmountElements |-> <<>>,
   avatarNameElements |-> <<>>]

\* indices of the nodes of a list that pass the numeric filter
AmountIdx(nodes) == {i \in DOMAIN nodes : IsAmountText(Trim(nodes[i]))}

Min(S) == CHOOSE m \in S : \A n \in S : m <= n

FirstAmountNoBreak(nodes, default) ==
  IF AmountIdx(nodes) = {} THEN default
  ELSE Trim(nodes[CHOOSE m \in AmountIdx(nodes) :
                    \A n \in AmountIdx(nodes) : m >= n])

\* elements.each(... if (text && !isNaN(parseFloat(text)) && text !== "EUR")
\*   { value = text; return false; })
FirstAmount(nodes, default) ==
  IF AmountIdx(nodes) = {} THEN default ELSE Trim(nodes[Min(AmountIdx(nodes))])

\* $('.glb-all-position-summary__statement:contains(phrase)')
\*   .closest(".glb-all-position-summary__totalbalance-section")
\*   .find(".global-position-total-balance__amount span")
SectionIdx(doc, phrase) ==
  {i \in DOMAIN doc.totalSavingsElements : phrase \in doc.totalSavingsIn[i]}

\* sectionExtract.find(...).first().text().trim(), filtered
SectionAmount(doc, phrase) ==
  LET idx == SectionIdx(doc, phrase)
      text == IF idx = {} THEN <<>>
              ELSE Trim(doc.totalSavingsElements[Min(idx)])
  IN IF IsAmountText(text) THEN text ELSE D_0_00

\* $(".avatar-component__alias span span").first()
ExtractAvatarName(doc) ==
  IF doc.avatarNameElements = <<>> THEN D_Alfonso
  ELSE OrDefault(Trim(doc.avatarNameElements[1]), D_Alfonso)

ExtractMonthlyExpenses(doc) ==
  IF doc.monthlyExpensesElements = <<>> THEN D_0_00
  ELSE LET text == RemoveFirst(Trim(doc.monthlyExpensesElements[1]), EuroSuffix)
       IN IF text # <<>> /\ ~ParseFloatIsNaN(text) THEN text ELSE D_0_00

extractOpenbankValues(doc) ==
  [accountTotalBalance |-> FirstAmount(doc.accountTotalElements, D_430_26),
   individualAccountBalance |-> FirstAmount(doc.individualAccountElements, D_0_00),
   totalSavingsBalance |-> FirstAmount(doc.totalSavingsElements, D_0_00),
   monthlyExpenses |-> ExtractMonthlyExpenses(doc),
   savingsInvestmentsTotal |-> SectionAmount(doc, "savings"),
   totalLending |-> SectionAmount(doc, "lending"),
   avatarName |-> ExtractAvatarName(doc),
   cardLastDigits |-> OrDefault(Trim(JoinTexts(doc.obCardDigits)), D_Card)]

extractDirectDebitsValues(doc) ==
  [accountsBalanceAmount |->
     OrDefault(Trim(JoinTexts(doc.accountsBalanceElement)), D_0_00),
   cardLastDigits |-> OrDefault(Trim(JoinTexts(doc.ddCardDigits)), D_Card),
   availableAmount |->
     OrDefault(Trim(JoinTexts(doc.availableAmountElement)), D_0_00),
   availableCurrency |->
     OrDefault(Trim(JoinTexts(doc.availableCurrencyElement)), Euro),
   avatarName |-> ExtractAvatarName(doc)]

extractCardsValues(doc) ==
  [cardLastDigits |-> OrDefault(Trim(JoinTexts(doc.cardsCardDigits)), D_1704),
   avatarName |-> ExtractAvatarName(doc)]

extractTransfersValues(doc) ==
  [cardLastDigits |-> OrDefault(Trim(JoinTexts(doc.trCardDigits)), D_Card),
   accountBalance |-> FirstAmount(doc.accountAmountElements, D_0_00),
   avatarName |-> ExtractAvatarName(doc)]

extractBalanceValues(doc, fileType) ==
  CASE fileType = "openbank" -> extractOpenbankValues(doc)
    [] fileType = "directDebits" -> extractDirectDebitsValues(doc)
    [] fileType = "cards" -> extractCardsValues(doc)
    [] fileType = "transfers" -> extractTransfersValues(doc)

(***************************************************************************)
(* State                                                                   *)
(*   files     content of every HTML file (a parsed document)              *)
(*   present   the files that exist: fs.readFile fails on the others       *)
(*   readonly  the files fs.writeFile fails on                             *)
(*   req       the request handled last                                    *)
(*   resp      the response to it                                          *)
(*   pre       the content of the files when that request arrived          *)
(*   nreq      how many times req has been submitted                       *)
(*   ext       the last response of GET /api/current-balances              *)
(*   fmtIn, fmtTarget, fmtOut  an incoming card-digits string, the target  *)
(*             document it is written to, and the text written             *)
(***************************************************************************)
VARIABLES files, present, readonly, req, resp, pre, nreq, ext,
          fmtIn, fmtTarget, fmtOut

serverVars == <<files, present, readonly, req, resp, pre, nreq, ext>>
fmtVars == <<fmtIn, fmtTarget, fmtOut>>

(***************************************************************************)
(* State of the browser side (ConfigManager, one configuration name)       *)
(*   configs        the in-memory cache entry: NoConfig or the data        *)
(*   loadedConfigs  whether the name is in the loadedConfigs set           *)
(*   localStorage   the entry config_<name>: NoEntry or data, timestamp    *)
(*                  and modified flag                                      *)
(*   observers      the callbacks in the observer set of the name          *)
(*   subs           per callback, the unsubscribe functions observe has    *)
(*                  returned for it that have not been called              *)
(*   registered     the callbacks whose latest observe call came after     *)
(*                  the latest call of an unsubscribe function for them    *)
(*   now            Date.now()                                             *)
(*   online         whether a fetch of the config file succeeds            *)
(*   persisted      the data of the last completed update, import or       *)
(*                  property update since the last reset or forced reload  *)
(*   cfgLast        the last ConfigManager call and what it did            *)
(***************************************************************************)
VARIABLES configs, loadedConfigs, localStorage, observers, subs, registered,
          now, online, persisted, cfgLast

cfgVars == <<configs, loadedConfigs, localStorage, observers, subs,
             registered, now, online, persisted, cfgLast>>

(***************************************************************************)
(* State of two update requests in flight at once (requests 1 and 2)       *)
(*   rpc      per request, the await it stands at                          *)
(*   rreq     per request, the fileType and balances of its body           *)
(*   rloaded  per request, the parse tree loadHTMLFile returned            *)
(*   rsnap    per request, its parse tree $ as it is now                   *)
(*   rnb      per request, what is left of newBalances                     *)
(*   rresp    per request, the response sent                               *)
(*   rlast    the request whose saveHTMLFile wrote last (0: none yet)      *)
(***************************************************************************)
VARIABLES rpc, rreq, rloaded, rsnap, rnb, rresp, rlast

raceVars == <<rpc, rreq, rloaded, rsnap, rnb, rresp, rlast>>

(***************************************************************************)
(*   callArgs  what a page passed to its last loadConfig or                *)
(*             updateConfigProperty call, with Date.now() and the          *)
(*             localStorage entry at the time of the call                  *)
(***************************************************************************)
VARIABLES callArgs

(***************************************************************************)
(* State of a page that uses OpenBankDataAPI and the data-manipulation     *)
(* interface                                                               *)
(*   accountsCfg      the accounts of the cached 'accounts' configuration, *)
(*                    or NoConfig while it is not loaded                   *)
(*   transactionsCfg  the recentTransactions of the cached 'transactions'  *)
(*                    configuration, or NoConfig while it is not loaded    *)
(*   txFile           recentTransactions in the transactions config file   *)
(*   added            the transactions addTransaction has added, in order  *)
(*   editLast         the last handleEditBalance call: the account, the    *)
(*                    prompt's answer, the accounts before the call and    *)
(*                    whether a balance was stored                         *)
(***************************************************************************)
VARIABLES accountsCfg, transactionsCfg, txFile, added, editLast

apiVars == <<accountsCfg, transactionsCfg, txFile, added, editLast>>

(***************************************************************************)
(* State of two addQuickTransaction / handleAddTransaction calls in flight *)
(* at once (calls 1 and 2)                                                 *)
(*   qpc    per call, the await it stands at                               *)
(*   qcall  per call, the function called, the account and the amount      *)
(*   qnew   per call, the new balance it passed to updateAccountBalance    *)
(***************************************************************************)
VARIABLES qpc, qcall, qnew

quickVars == <<qpc, qcall, qnew>>

(***************************************************************************)
(* State of the girobox script (scripts/giroboxActions.js)                 *)
(*   shouldShowClient, shouldShowProspect, mbisCustomer                    *)
(*                    the localStorage items of these names; NoItem is an  *)
(*                    item that is absent (getItem returns null)           *)
(*   href             window.location.href of the page, as the list of its *)
(*                    parts with "?" a part of its own                     *)
(*   intervalGirobox  "none" before the script has run on the page,        *)
(*                    "waiting" after DOMContentLoaded, "set" while the    *)
(*                    interval is pending, "cleared" after its callback,   *)
(*                    "threw" when giroboxActions has thrown               *)
(*   isCustomer, hasSegmentClient, hasSegmentProspect                      *)
(*                    the constants of the running giroboxActions call     *)
(*   wrappers         the number of client and of prospect wrappers the    *)
(*                    last interval callback found                         *)
(*   decided          the run that assigned the two items last: its href,  *)
(*                    customer flag and wrappers                           *)
(***************************************************************************)
VARIABLES shouldShowClient, shouldShowProspect, mbisCustomer, href,
          intervalGirobox, isCustomer, hasSegmentClient, hasSegmentProspect,
          wrappers, decided

giroVars == <<shouldShowClient, shouldShowProspect, mbisCustomer, href,
              intervalGirobox, isCustomer, hasSegmentClient,
              hasSegmentProspect, wrappers, decided>>

\* the state of the parts that stand apart from the server's sequential
\* handlers and from the ConfigManager
restVars == <<raceVars, callArgs, apiVars, quickVars, giroVars>>

vars == <<files, present, readonly, req, resp, pre, nreq, ext,
          fmtIn, fmtTarget, fmtOut,
          configs, loadedConfigs, localStorage, observers, subs,
          registered, now, online, persisted, cfgLast,
          rpc, rreq, rloaded, rsnap, rnb, rresp, rlast, callArgs,
          accountsCfg, transactionsCfg, txFile, added, editLast,
          qpc, qcall, qnew,
          shouldShowClient, shouldShowProspect, mbisCustomer, href,
          intervalGirobox, isCustomer, hasSegmentClient, hasSegmentProspect,
          wrappers, decided>>

NoConfig == [t |-> "none"]
NoEntry == [t |-> "none"]
Callbacks == {"cb"}
NoCall == [op |-> "none", ok |-> TRUE, result |-> NoConfig, calls |-> <<>>,
           fetches |-> 0, before |-> NoConfig, online |-> TRUE,
           notified |-> {}, subscribed |-> {}, registered |-> {}]

\* a page that has just constructed its ConfigManager, with an empty
\* localStorage
CfgIdle ==
  /\ configs = NoConfig
  /\ loadedConfigs = FALSE
  /\ localStorage = NoEntry
  /\ observers = {}
  /\ subs = [cb \in Callbacks |-> 0]
  /\ registered = {}
  /\ now = 0
  /\ online = TRUE
  /\ persisted = NoConfig
  /\ cfgLast = NoCall

Requests == {1, 2}
NoDoc == [t |-> "none"]

\* no request in flight
RaceIdle ==
  /\ rpc = [i \in Requests |-> "idle"]
  /\ rreq = [i \in Requests |-> [t |-> "none"]]
  /\ rloaded = [i \in Requests |-> NoDoc]
  /\ rsnap = [i \in Requests |-> NoDoc]
  /\ rnb = [i \in Requests |-> <<>>]
  /\ rresp = [i \in Requests |-> [status |-> 0, success |-> FALSE]]
  /\ rlast = 0

NoArgs == [op |-> "none"]

NoEdit == [op |-> "none"]

\* a page on which no API call has been made yet
ApiIdle ==
  /\ accountsCfg = NoConfig
  /\ transactionsCfg = NoConfig
  /\ txFile = <<>>
  /\ added = <<>>
  /\ editLast = NoEdit

Calls == {1, 2}

\* no such call in flight
QuickIdle ==
  /\ qpc = [i \in Calls |-> "idle"]
  /\ qcall = [i \in Calls |-> [via |-> "none"]]
  /\ qnew = [i \in Calls |-> [t |-> "none"]]

NoItem == "null"
NoWrappers == [clients |-> 0, prospects |-> 0]
NoRun == [t |-> "none"]

\* a browser with an empty localStorage and no page open
GiroIdle ==
  /\ shouldShowClient = NoItem
  /\ shouldShowProspect = NoItem
  /\ mbisCustomer = NoItem
  /\ href = <<>>
  /\ intervalGirobox = "none"
  /\ isCustomer = ""
  /\ hasSegmentClient = FALSE
  /\ hasSegmentProspect = FALSE
  /\ wrappers = NoWrappers
  /\ decided = NoRun

RestIdle ==
  RaceIdle /\ callArgs = NoArgs /\ ApiIdle /\ QuickIdle /\ GiroIdle

(***************************************************************************)
(* Update records                                                          *)
(***************************************************************************)
Has(newBalances, f) == f \in DOMAIN newBalances

\* newBalances.f && newBalances.f !== ""
Truthy(newBalances, f) == Has(newBalances, f) /\ newBalances[f] # <<>>

\* `${newBalances.f}`
TemplateText(newBalances, f) ==
  IF Has(newBalances, f) THEN newBalances[f] ELSE UndefinedText

\* const { f, ...otherBalances } = newBalances
Without(newBalances, f) ==
  [g \in DOMAIN newBalances \ {f} |-> newBalances[g]]

(***************************************************************************)
(* Node writes                                                             *)
(***************************************************************************)
\* selection.text(v): every matched node
SetAll(nodes, v) == [i \in DOMAIN nodes |-> v]

\* elements.each(... if (qualifies) { $elem.text(v); }) : every qualifying node
SetAllAmounts(nodes, v) ==
  [i \in DOMAIN nodes |-> IF i \in AmountIdx(nodes) THEN v ELSE nodes[i]]

SetFirstAmountEvery(nodes, newBalances, f) ==
  IF ~Has(newBalances, f) THEN nodes ELSE SetAllAmounts(nodes, newBalances[f])

\* elements.each(... if (qualifies) { $elem.text(newBalances.f); return false; })
\* text(undefined) reads the node and writes nothing
SetFirstAmount(nodes, newBalances, f) ==
  IF ~Has(newBalances, f) \/ AmountIdx(nodes) = {} THEN nodes
  ELSE [nodes EXCEPT ![Min(AmountIdx(nodes))] = newBalances[f]]

\* section.find(...).first().text(newBalances.f)
SetSectionAmount(doc, phrase, newBalances, f) ==
  IF ~Has(newBalances, f) \/ SectionIdx(doc, phrase) = {} THEN doc
  ELSE [doc EXCEPT
          !.totalSavingsElements[Min(SectionIdx(doc, phrase))] = newBalances[f]]

(***************************************************************************)
(* Document store                                                          *)
(***************************************************************************)
\* loadHTMLFile succeeds
CanLoad(fileType) == fileType \in FileTypes /\ HTML_FILES[fileType] \in present

\* saveHTMLFile succeeds
CanSave(fileType) ==
  fileType \in FileTypes /\ HTML_FILES[fileType] \notin readonly

(***************************************************************************)
(* Global updates.  Each returns the new file contents and ok = FALSE when *)
(* it throws.                                                              *)
(***************************************************************************)
CardDigitsKey(fileType) ==
  IF fileType = "openbank" THEN "obCardDigits" ELSE "trCardDigits"

\* one iteration of the loop over filesToUpdate; threw = the iteration ended
\* in its catch block
CardDigitsInFile(fs, fileType, newCardDigits) ==
  LET name == HTML_FILES[fileType]
      key == CardDigitsKey(fileType)
  IN IF ~CanLoad(fileType) THEN [fs |-> fs, threw |-> TRUE]
     ELSE IF fs[name][key] = <<>> THEN [fs |-> fs, threw |-> FALSE]
     ELSE IF ~CanSave(fileType) THEN [fs |-> fs, threw |-> TRUE]
     ELSE [fs |-> [fs EXCEPT ![name][key] =
                     SetAll(@, FormatCardDigits(newCardDigits))],
           threw |-> FALSE]

updateCardDigitsGloballyAbort(fs, newCardDigits) ==
  LET r1 == CardDigitsInFile(fs, "openbank", newCardDigits)
      r2 == CardDigitsInFile(r1.fs, "transfers", newCardDigits)
  IN IF r1.threw THEN [fs |-> r1.fs, ok |-> FALSE]
     ELSE [fs |-> r2.fs, ok |-> ~r2.threw]

updateCardDigitsGlobally(fs, newCardDigits) ==
  LET r1 == CardDigitsInFile(fs, "openbank", newCardDigits)
      r2 == CardDigitsInFile(r1.fs, "transfers", newCardDigits)
  IN [fs |-> r2.fs, ok |-> TRUE]

AccountBalanceInFile(fs, fileType, newAccountBalance) ==
  LET name == HTML_FILES[fileType]
      key == IF fileType = "openbank" THEN "accountTotalElements"
             ELSE "accountAmountElements"
      nodes == fs[name][key]
      written == IF fileType = "openbank"
                 THEN [nodes EXCEPT ![Min(AmountIdx(nodes))] = newAccountBalance]
                 ELSE SetAllAmounts(nodes, newAccountBalance)
  IN IF ~CanLoad(fileType) \/ AmountIdx(nodes) = {} \/ ~CanSave(fileType)
     THEN fs
     ELSE [fs EXCEPT ![name][key] = written]

updateAccountBalanceGloballyMainOnly(fs, newAccountBalance) ==
  [fs |-> AccountBalanceInFile(fs, "openbank", newAccountBalance), ok |-> TRUE]

updateAccountBalanceGlobally(fs, newAccountBalance) ==
  [fs |-> AccountBalanceInFile(
            AccountBalanceInFile(fs, "openbank", newAccountBalance),
            "transfers", newAccountBalance),
   ok |-> TRUE]

\* the files glob.sync returns
ScannedFiles == present \ GlobIgnore

\* the avatar nodes the loop rewrites: oldName && oldName !== newAvatarName
AvatarStale(doc, newAvatarName) ==
  {i \in DOMAIN doc.avatarNameElements :
     /\ Trim(doc.avatarNameElements[i]) # <<>>
     /\ Trim(doc.avatarNameElements[i]) # newAvatarName}

AvatarInFile(doc, newAvatarName) ==
  [doc EXCEPT !.avatarNameElements =
     [i \in DOMAIN @ |->
        IF i \in AvatarStale(doc, newAvatarName) THEN newAvatarName ELSE @[i]]]

updateAvatarNameGlobally(fs, newAvatarName) ==
  [fs |-> [name \in FileNames |->
             IF /\ name \in ScannedFiles
                /\ AvatarStale(fs[name], newAvatarName) # {}
                /\ name \notin readonly
             THEN AvatarInFile(fs[name], newAvatarName)
             ELSE fs[name]],
   ok |-> TRUE]

\* the files the loop counts in updatedCount: rewritten and saved
AvatarUpdated(fs, newAvatarName) ==
  {name \in ScannedFiles :
     AvatarStale(fs[name], newAvatarName) # {} /\ name \notin readonly}

\* the files the loop counts in skippedCount: no avatar node, no stale node,
\* or an error while the file was processed
AvatarSkipped(fs, newAvatarName) ==
  ScannedFiles \ AvatarUpdated(fs, newAvatarName)

(***************************************************************************)
(* Updates of the requested document (on the parse tree the handler holds) *)
(***************************************************************************)
updateOpenbankValues(doc, newBalances) ==
  LET d1 == [doc EXCEPT
               !.accountTotalElements =
                  SetFirstAmount(@, newBalances, "accountTotalBalance"),
               !.individualAccountElements =
                  SetFirstAmount(@, newBalances, "individualAccountBalance"),
               !.totalSavingsElements =
                  SetFirstAmount(@, newBalances, "totalSavingsBalance"),
               !.monthlyExpensesElements =
                  SetAll(@, TemplateText(newBalances, "monthlyExpenses")
                              \o EuroSuffix)]
      d2 == SetSectionAmount(d1, "savings", newBalances, "savingsInvestmentsTotal")
  IN SetSectionAmount(d2, "lending", newBalances, "totalLending")

updateDirectDebitsValues(doc, newBalances) ==
  [doc EXCEPT
     !.accountsBalanceElement =
        IF Truthy(newBalances, "accountsBalanceAmount")
        THEN SetAll(@, newBalances["accountsBalanceAmount"]) ELSE @,
     !.ddCardDigits =
        IF Truthy(newBalances, "cardLastDigits")
        THEN SetAll(@, FormatCardDigits(newBalances["cardLastDigits"])) ELSE @,
     !.availableAmountElement =
        IF Truthy(newBalances, "availableAmount")
        THEN SetAll(@, newBalances["availableAmount"]) ELSE @,
     !.availableCurrencyElement =
        IF Truthy(newBalances, "availableCurrency")
        THEN SetAll(@, newBalances["availableCurrency"]) ELSE @]

updateCardsValues(doc, newBalances) ==
  [doc EXCEPT
     !.cardsCardDigits =
        IF Truthy(newBalances, "cardLastDigits")
        THEN SetAll(@, newBalances["cardLastDigits"]) ELSE @]

updateTransfersValues(doc, newBalances) ==
  [doc EXCEPT
     !.accountAmountElements =
        IF Truthy(newBalances, "accountBalance")
        THEN SetAllAmounts(@, newBalances["accountBalance"]) ELSE @,
     !.trCardDigits =
        IF Truthy(newBalances, "cardLastDigits")
        THEN SetAll(@, FormatCardDigits(newBalances["cardLastDigits"])) ELSE @]

\* updateBalanceValues($, newBalances, fileType) runs four steps in turn.  The
\* state handed from step to step is s = [fs, ok, nb]: the files on disk,
\* ok = FALSE once a step has thrown, and what is left of newBalances.

\* r = [fs, ok] is what a global update returned, nb the record without the
\* field it consumed
Remaining(r, nb) == [fs |-> r.fs, ok |-> r.ok, nb |-> nb]

\* if (newBalances.cardLastDigits && (openbank || transfers)) { ... }
GlobalCardDigitsStep(fs, newBalances, fileType) ==
  IF /\ Truthy(newBalances, "cardLastDigits")
     /\ fileType \in {"openbank", "transfers"}
  THEN Remaining(updateCardDigitsGlobally(fs, newBalances["cardLastDigits"]),
                 Without(newBalances, "cardLastDigits"))
  ELSE [fs |-> fs, ok |-> TRUE, nb |-> newBalances]

\* if (newBalances.accountTotalBalance && fileType === "openbank") { ... }
GlobalAccountBalanceStep(s, fileType) ==
  IF /\ s.ok
     /\ Truthy(s.nb, "accountTotalBalance")
     /\ fileType = "openbank"
  THEN [s EXCEPT
          !.fs = updateAccountBalanceGlobally(@, s.nb["accountTotalBalance"]).fs]
  ELSE s

\* if (newBalances.avatarName) { ... }
GlobalAvatarNameStep(s) ==
  IF s.ok /\ Truthy(s.nb, "avatarName")
  THEN [s EXCEPT !.fs = updateAvatarNameGlobally(@, s.nb["avatarName"]).fs,
                 !.nb = Without(@, "avatarName")]
  ELSE s

\* switch (fileType) { ... } on the parse tree the handler loaded
PerFileStep(doc, s, fileType) ==
  IF ~s.ok THEN [doc |-> doc, fs |-> s.fs, ok |-> FALSE]
  ELSE CASE fileType = "openbank" ->
              [doc |-> updateOpenbankValues(doc, s.nb), fs |-> s.fs, ok |-> TRUE]
         [] fileType = "directDebits" ->
              [doc |-> updateDirectDebitsValues(doc, s.nb), fs |-> s.fs, ok |-> TRUE]
         [] fileType = "cards" ->
              [doc |-> updateCardsValues(doc, s.nb), fs |-> s.fs, ok |-> TRUE]
         [] fileType = "transfers" ->
              [doc |-> updateTransfersValues(doc, s.nb), fs |-> s.fs, ok |-> TRUE]
         [] OTHER -> [doc |-> doc, fs |-> s.fs, ok |-> FALSE]

\* doc is the parse tree the handler loaded, fs the files on disk.  Returns
\* the new parse tree, the new files and ok = FALSE when it throws.
updateBalanceValues(doc, fs, newBalances, fileType) ==
  PerFileStep(doc,
              GlobalAvatarNameStep(
                GlobalAccountBalanceStep(
                  GlobalCardDigitsStep(fs, newBalances, fileType), fileType)),
              fileType)

(***************************************************************************)
(* The handlers                                                            *)
(***************************************************************************)
SuccessBody(balances, fileType) ==
  [status |-> 200, success |-> TRUE,
   message |-> "Balance values updated successfully",
   updatedBalances |-> balances, fileType |-> fileType]

ErrorBody(status) == [status |-> status, success |-> FALSE]

SaveAndRespondSwallow(u, balances, fileType) ==
  IF ~u.ok THEN [fs |-> u.fs, resp |-> ErrorBody(500)]
  ELSE IF ~CanSave(fileType)
  THEN [fs |-> u.fs, resp |-> SuccessBody(balances, fileType)]
  ELSE [fs |-> [u.fs EXCEPT ![HTML_FILES[fileType]] = u.doc],
        resp |-> SuccessBody(balances, fileType)]

\* saveHTMLFile($, fileType) and the response: u is what updateBalanceValues
\* returned
SaveAndRespond(u, balances, fileType) ==
  IF ~u.ok \/ ~CanSave(fileType)
  THEN [fs |-> u.fs, resp |-> ErrorBody(500)]
  ELSE [fs |-> [u.fs EXCEPT ![HTML_FILES[fileType]] = u.doc],
        resp |-> SuccessBody(balances, fileType)]

PostUpdateBalancesLoadFirst(fs, bodyOk, balances, fileType) ==
  IF ~CanLoad(fileType) THEN [fs |-> fs, resp |-> ErrorBody(500)]
  ELSE IF ~bodyOk THEN [fs |-> fs, resp |-> ErrorBody(400)]
  ELSE SaveAndRespond(
         updateBalanceValues(fs[HTML_FILES[fileType]], fs, balances, fileType),
         balances, fileType)

\* app.post("/api/update-balances"): bodyOk is FALSE when the body carries no
\* balances value or one that is not an object
PostUpdateBalances(fs, bodyOk, balances, fileType) ==
  IF ~bodyOk THEN [fs |-> fs, resp |-> ErrorBody(400)]
  ELSE IF ~CanLoad(fileType) THEN [fs |-> fs, resp |-> ErrorBody(500)]
  ELSE SaveAndRespond(
         updateBalanceValues(fs[HTML_FILES[fileType]], fs, balances, fileType),
         balances, fileType)

\* app.get("/api/current-balances")
GetCurrentBalances(fs, fileType) ==
  IF ~CanLoad(fileType) THEN ErrorBody(500)
  ELSE [status |-> 200, success |-> TRUE,
        balances |-> extractBalanceValues(fs[HTML_FILES[fileType]], fileType),
        fileType |-> fileType]

(***************************************************************************)
(* Initial files and the requests a client sends                           *)
(***************************************************************************)
SeqsUpTo(S, n) == UNION {[1..k -> S] : k \in 0..n}

Copies(n, text) == [i \in 1..n |-> text]

T_5 == <<"5">>
T_5_Euro == <<"5", " ", "EUR">>
T_Card1 == <<".", ".", ".", "1">>
T_1 == <<"1">>
T_a == <<"a">>
T_7 == <<"7">>

\* amount nodes: no node at all, or MaxNodes nodes holding amounts and
\* currency symbols in any order
AmountLists == {<<>>} \cup [1..MaxNodes -> {T_5, Euro}]

\* which totalbalance-section encloses each total-balance node: the first
\* node heads the savings section, or stands outside every section
TagsInside ==
  [i \in 1..MaxNodes |-> IF i = 1 THEN {"savings"} ELSE {"savings", "lending"}]
TagsOutside == [i \in 1..MaxNodes |-> IF i = 1 THEN {} ELSE {"lending"}]

InitFiles(amts, tags, n) ==
  [name \in FileNames |->
     CASE name = "Openbank.html" ->
            [EmptyDoc EXCEPT
               !.accountTotalElements = amts,
               !.individualAccountElements = amts,
               !.totalSavingsElements = amts,
               !.totalSavingsIn = SubSeq(tags, 1, Len(amts)),
               !.monthlyExpensesElements = Copies(n, T_5_Euro),
               !.obCardDigits = Copies(n, T_Card1),
               !.avatarNameElements = Copies(n, T_a)]
       [] name = "Openbank-direct-debits.html" ->
            [EmptyDoc EXCEPT
               !.accountsBalanceElement = Copies(n, T_5),
               !.ddCardDigits = Copies(n, T_Card1),
               !.availableAmountElement = Copies(n, T_5),
               !.availableCurrencyElement = Copies(n, Euro),
               !.avatarNameElements = Copies(n, T_a)]
       [] name = "Openbank-cards.html" ->
            [EmptyDoc EXCEPT
               !.cardsCardDigits = Copies(n, T_1),
               !.avatarNameElements = <<<<" ">>>> \o Copies(n, T_a)]
       [] name = "Openbank-transfers.html" ->
            [EmptyDoc EXCEPT
               !.trCardDigits = Copies(n, T_Card1),
               !.accountAmountElements = amts,
               !.avatarNameElements = Copies(n, T_a)]
       [] name = "Openbank-loans.html" ->
            [EmptyDoc EXCEPT !.avatarNameElements = Copies(n, T_7)]
       [] OTHER ->
            [EmptyDoc EXCEPT !.avatarNameElements = Copies(n, T_a)]]

\* at most one of the two global targets is missing or write-protected
NoFailure == [missing |-> {}, readonly |-> {}]
FailureModes ==
  {[missing |-> {HTML_FILES[t]}, readonly |-> {}] :
     t \in {"openbank", "transfers"}}
    \cup {[missing |-> {}, readonly |-> {HTML_FILES[t]}] :
            t \in {"openbank", "transfers"}}

\* the initial layouts: every tagging and node count without failures, and
\* every failure on the fully populated layout
Layouts ==
  {[tags |-> t, n |-> n, mode |-> NoFailure] :
     t \in {TagsInside, TagsOutside}, n \in {0, MaxNodes}}
    \cup {[tags |-> TagsInside, n |-> MaxNodes, mode |-> m] : m \in FailureModes}

\* the fields each per-document update function reads
FieldsOf(fileType) ==
  CASE fileType = "transfers" ->
         DOMAIN FIELD_CONFIGS[fileType] \cup {"accountBalance"}
    [] OTHER -> DOMAIN FIELD_CONFIGS[fileType]

\* an empty string, a number, and a dotted (non-numeric) string
RecValues == {<<>>, T_7, <<".", ".", ".", "7">>}

Records(fileType) ==
  UNION {[S -> RecValues] :
           S \in {F \in SUBSET FieldsOf(fileType) : Cardinality(F) <= MaxFields}}

\* a fileType that is not a key of HTML_FILES
UnknownType == "loans"

NoReq == [kind |-> "none"]
NoResp == [status |-> 0, success |-> FALSE]

FmtChars == {".", "7", "x"}
FmtTargets == {"openbank", "transfers", "directDebits"}

ServerIdle ==
  /\ req = NoReq
  /\ resp = NoResp
  /\ nreq = 0
  /\ ext = NoResp

FmtIdle ==
  /\ fmtIn = <<>>
  /\ fmtTarget = "none"
  /\ fmtOut = <<>>

Init ==
  /\ \E amts \in AmountLists, l \in Layouts :
       /\ files = InitFiles(amts, l.tags, l.n)
       /\ pre = InitFiles(amts, l.tags, l.n)
       /\ present = FileNames \ l.mode.missing
       /\ readonly = l.mode.readonly
  /\ ServerIdle
  /\ FmtIdle
  /\ CfgIdle
  /\ RestIdle

(***************************************************************************)
(* Actions                                                                 *)
(***************************************************************************)
\* the handler's effect r = [fs, resp]: the files it leaves on disk and the
\* response it sends
Handle(r) ==
  /\ files' = r.fs
  /\ resp' = r.resp

\* a client posts {balances, fileType} to /api/update-balances
Update(fileType, balances) ==
  /\ nreq = 0
  /\ ext = NoResp
  /\ Handle(PostUpdateBalances(files, TRUE, balances, fileType))
  /\ pre' = files
  /\ req' = [kind |-> "update", bodyOk |-> TRUE,
             fileType |-> fileType, balances |-> balances]
  /\ nreq' = 1
  /\ UNCHANGED <<present, readonly, ext>>
  /\ UNCHANGED fmtVars
  /\ UNCHANGED restVars
  /\ UNCHANGED cfgVars

\* a client posts a body without a balances object
UpdateBadBody(fileType) ==
  /\ nreq = 0
  /\ ext = NoResp
  /\ Handle(PostUpdateBalances(files, FALSE, <<>>, fileType))
  /\ pre' = files
  /\ req' = [kind |-> "update", bodyOk |-> FALSE,
             fileType |-> fileType, balances |-> <<>>]
  /\ nreq' = 1
  /\ UNCHANGED <<present, readonly, ext>>
  /\ UNCHANGED fmtVars
  /\ UNCHANGED restVars
  /\ UNCHANGED cfgVars

\* a client posts {balances, fileType} with a fileType HTML_FILES lacks
UpdateUnknownType(balances) ==
  /\ nreq = 0
  /\ ext = NoResp
  /\ Handle(PostUpdateBalances(files, TRUE, balances, UnknownType))
  /\ pre' = files
  /\ req' = [kind |-> "update", bodyOk |-> TRUE,
             fileType |-> UnknownType, balances |-> balances]
  /\ nreq' = 1
  /\ UNCHANGED <<present, readonly, ext>>
  /\ UNCHANGED fmtVars
  /\ UNCHANGED restVars
  /\ UNCHANGED cfgVars

\* the client posts the same request again
Resubmit ==
  /\ nreq >= 1
  /\ ext = NoResp
  /\ nreq <= MaxRepeat
  /\ Handle(PostUpdateBalances(files, req.bodyOk, req.balances, req.fileType))
  /\ pre' = files
  /\ nreq' = nreq + 1
  /\ UNCHANGED <<present, readonly, req, ext>>
  /\ UNCHANGED fmtVars
  /\ UNCHANGED restVars
  /\ UNCHANGED cfgVars

\* a client gets /api/current-balances?fileType=...
Extract(fileType) ==
  /\ ext = NoResp
  /\ nreq <= 1
  /\ ext' = GetCurrentBalances(files, fileType)
  /\ UNCHANGED <<files, present, readonly, req, resp, pre, nreq>>
  /\ UNCHANGED fmtVars
  /\ UNCHANGED restVars
  /\ UNCHANGED cfgVars

Next ==
  \/ \E fileType \in FileTypes : \E balances \in Records(fileType) :
       Update(fileType, balances)
  \/ \E fileType \in FileTypes : UpdateBadBody(fileType)
  \/ \E balances \in Records("cards") : UpdateUnknownType(balances)
  \/ Resubmit
  \/ \E fileType \in FileTypes : Extract(fileType)

Spec == Init /\ [][Next]_vars

(***************************************************************************)
(* The card-digits format on its own: every short string over ".", a digit *)
(* and a letter is written to each dotted-prefix target                    *)
(***************************************************************************)
InitFormat ==
  /\ fmtIn \in SeqsUpTo(FmtChars, MaxLen)
  /\ fmtTarget = "none"
  /\ fmtOut = <<>>
  /\ files = InitFiles(<<>>, <<>>, 0)
  /\ pre = InitFiles(<<>>, <<>>, 0)
  /\ present = FileNames
  /\ readonly = {}
  /\ ServerIdle
  /\ CfgIdle
  /\ RestIdle

\* the formatting branch of an update of cardLastDigits on one target
WriteCardDigits(target) ==
  /\ fmtTarget = "none"
  /\ fmtTarget' = target
  /\ fmtOut' = FormatCardDigits(fmtIn)
  /\ UNCHANGED fmtIn
  /\ UNCHANGED serverVars
  /\ UNCHANGED cfgVars
  /\ UNCHANGED restVars

NextFormat == \E target \in FmtTargets : WriteCardDigits(target)

SpecFormat == InitFormat /\ [][NextFormat]_vars

(***************************************************************************)
(* ConfigManager (browser side).  One configuration name is modelled.  A   *)
(* JSON value is a tagged record: a number, NaN, null, or an object whose  *)
(* members m map keys to values.                                           *)
(***************************************************************************)
Num(n) == [t |-> "num", v |-> n]
NaN == [t |-> "nan"]
Null == [t |-> "null"]
Obj(m) == [t |-> "obj", m |-> m]
EmptyObj == Obj(<<>>)

\* the members of an object; a value that is not an object has none
\* ({...target} and target[key] || {})
Members(v) == IF v.t = "obj" THEN v.m ELSE <<>>

\* JSON.parse(JSON.stringify(v)): NaN is serialised as null
RECURSIVE JsonRoundTrip(_)
JsonRoundTrip(v) ==
  CASE v.t = "nan" -> Null
    [] v.t = "obj" -> Obj([k \in DOMAIN v.m |-> JsonRoundTrip(v.m[k])])
    [] OTHER -> v

RECURSIVE deepMerge(_, _)
deepMerge(target, source) ==
  Obj([key \in DOMAIN Members(target) \cup DOMAIN Members(source) |->
         IF key \notin DOMAIN Members(source) THEN Members(target)[key]
         ELSE IF Members(source)[key].t = "obj"
         THEN deepMerge(IF key \in DOMAIN Members(target)
                        THEN Members(target)[key] ELSE EmptyObj,
                        Members(source)[key])
         ELSE Members(source)[key]])

\* obj with member key set to v
WithMember(obj, key, v) ==
  Obj([k \in DOMAIN obj.m \cup {key} |-> IF k = key THEN v ELSE obj.m[k]])

\* r is what the rest of the path returned for the member key of target
SetPathInto(target, key, r) ==
  IF r.ok THEN [ok |-> TRUE, data |-> WithMember(target, key, r.data)]
  ELSE [ok |-> FALSE, data |-> target]

\* the loop of updateConfigProperty over pathParts and the final assignment;
\* ok = FALSE when it throws a TypeError (`key in target` or the assignment,
\* on a target that is not an object)
RECURSIVE SetPath(_, _, _)
SetPath(target, pathParts, value) ==
  IF target.t # "obj" THEN [ok |-> FALSE, data |-> target]
  ELSE IF Len(pathParts) = 1
  THEN [ok |-> TRUE, data |-> WithMember(target, pathParts[1], value)]
  ELSE SetPathInto(target, Head(pathParts),
                   SetPath(IF Head(pathParts) \in DOMAIN target.m
                           THEN target.m[Head(pathParts)] ELSE EmptyObj,
                           Tail(pathParts), value))

\* this.cacheDuration, in milliseconds
cacheDuration == 5 * 60 * 1000

\* the config file on the server (it is never written by the browser side)
FileData == Obj([balance |-> Num(0), user |-> Obj([name |-> Num(0)])])

\* The manager's own state while a call runs: m = [configs, loaded, ls, calls,
\* fetches], where calls lists the data of each notifyObservers of this call
\* and fetches counts its fetches of the config file.
Manager ==
  [configs |-> configs, loaded |-> loadedConfigs, ls |-> localStorage,
   calls |-> <<>>, fetches |-> 0]

\* localStorage.setItem(cacheKey, JSON.stringify({data, timestamp, modified}))
Entry(data, modified) ==
  [t |-> "entry", data |-> JsonRoundTrip(data), timestamp |-> now,
   modified |-> modified]

\* what a call returns: the manager state, ok = FALSE when it throws, and
\* the returned data
Returned(m, result) == [m |-> m, ok |-> TRUE, result |-> result]
Thrown(m) == [m |-> m, ok |-> FALSE, result |-> NoConfig]

\* notifyObservers(configName, data): one call of every callback of the set
notifyObservers(m, data) == [m EXCEPT !.calls = Append(@, data)]

\* loadConfig from "Load from file" on; m.fetches already counts this fetch
FetchConfig(m) ==
  IF online
  THEN Returned(notifyObservers(
                  [m EXCEPT !.configs = FileData,
                            !.loaded = TRUE,
                            !.ls = Entry(FileData, FALSE)],
                  FileData),
                FileData)
  ELSE IF m.ls # NoEntry THEN Returned(m, m.ls.data)
  ELSE Thrown(m)

loadConfigNoExpiry(m, forceReload) ==
  IF m.configs # NoConfig /\ ~forceReload THEN Returned(m, m.configs)
  ELSE IF m.ls # NoEntry /\ ~forceReload
  THEN Returned([m EXCEPT !.configs = m.ls.data, !.loaded = TRUE], m.ls.data)
  ELSE FetchConfig([m EXCEPT !.fetches = @ + 1])

loadConfig(m, forceReload) ==
  IF m.configs # NoConfig /\ ~forceReload THEN Returned(m, m.configs)
  ELSE IF /\ m.ls # NoEntry
          /\ ~forceReload
          /\ now - m.ls.timestamp < cacheDuration
  THEN Returned([m EXCEPT !.configs = m.ls.data, !.loaded = TRUE], m.ls.data)
  ELSE FetchConfig([m EXCEPT !.fetches = @ + 1])

\* updateConfig after currentConfig has been obtained: l is what loadConfig
\* returned, or the cached config
StoreUpdated(m, updatedConfig) ==
  Returned(notifyObservers(
             [m EXCEPT !.configs = updatedConfig,
                       !.ls = Entry(updatedConfig, TRUE)],
             updatedConfig),
           updatedConfig)

MergeAndStoreSilent(l, updates, merge) ==
  IF ~l.ok THEN Thrown(l.m)
  ELSE [StoreUpdated(l.m, IF merge THEN deepMerge(l.result, updates)
                          ELSE updates)
          EXCEPT !.m.calls = l.m.calls]

MergeAndStore(l, updates, merge) ==
  IF ~l.ok THEN Thrown(l.m)
  ELSE StoreUpdated(l.m, IF merge THEN deepMerge(l.result, updates)
                         ELSE updates)

updateConfig(m, updates, merge) ==
  MergeAndStore(IF m.configs = NoConfig THEN loadConfig(m, FALSE)
                ELSE Returned(m, m.configs),
                updates, merge)

\* updateConfigProperty after loadConfig returned l and the path was set
StoreProperty(l, sp) ==
  IF ~l.ok \/ ~sp.ok THEN Thrown(l.m)
  ELSE updateConfig(l.m, sp.data, FALSE)

SetPropertyIn(l, pathParts, value) ==
  StoreProperty(l, IF l.ok THEN SetPath(l.result, pathParts, value)
                   ELSE [ok |-> FALSE, data |-> NoConfig])

updateConfigProperty(m, pathParts, value) ==
  SetPropertyIn(loadConfig(m, FALSE), pathParts, value)

importConfig(m, data) == updateConfig(m, data, FALSE)

resetConfigKeepCache(m) == loadConfig([m EXCEPT !.ls = NoEntry], FALSE)

resetConfig(m) ==
  loadConfig([m EXCEPT !.ls = NoEntry, !.configs = NoConfig], TRUE)

\* the loop of getValue over pathParts
RECURSIVE GetPath(_, _, _)
GetPath(current, pathParts, defaultValue) ==
  IF pathParts = <<>> THEN current
  ELSE IF current.t = "obj" /\ Head(pathParts) \in DOMAIN current.m
  THEN GetPath(current.m[Head(pathParts)], Tail(pathParts), defaultValue)
  ELSE defaultValue

\* getValue after loadConfig returned l
GetValueFrom(l, pathParts, defaultValue) ==
  IF ~l.ok THEN Thrown(l.m)
  ELSE Returned(l.m, GetPath(l.result, pathParts, defaultValue))

getValue(m, pathParts, defaultValue) ==
  GetValueFrom(loadConfig(m, FALSE), pathParts, defaultValue)

(***************************************************************************)
(* The calls a page makes on its ConfigManager                             *)
(***************************************************************************)
MaxTicks == 2
MaxSubs == 2

\* the clock advances in steps of half the cache duration
TickMs == cacheDuration \div 2

\* the updates, property paths, property values and imports a page passes
Updates == {Obj([balance |-> Num(1)]), Obj([user |-> Obj([id |-> Num(1)])])}
Paths == {<<"balance">>, <<"user", "name">>, <<"balance", "x">>}
Values == {Num(1), NaN}
Imports == {Obj([balance |-> Num(1)])}

\* the effect of a call that returned r on the manager and on the record of
\* the last call
CfgCommit(op, r) ==
  /\ configs' = r.m.configs
  /\ loadedConfigs' = r.m.loaded
  /\ localStorage' = r.m.ls
  /\ cfgLast' = [op |-> op, ok |-> r.ok, result |-> r.result,
                 calls |-> r.m.calls, fetches |-> r.m.fetches,
                 before |-> configs, online |-> online,
                 notified |-> observers,
                 subscribed |-> {cb \in Callbacks : subs[cb] > 0},
                 registered |-> registered]
  /\ UNCHANGED <<observers, subs, registered, now, online>>
  /\ UNCHANGED serverVars
  /\ UNCHANGED fmtVars
  /\ UNCHANGED raceVars
  /\ UNCHANGED apiVars
  /\ UNCHANGED quickVars
  /\ UNCHANGED giroVars

\* the data a completed update leaves to be found by later loads
Persist(r) == persisted' = IF r.ok THEN r.result ELSE persisted

LoadConfig(forceReload) ==
  /\ CfgCommit("loadConfig", loadConfig(Manager, forceReload))
  /\ persisted' = IF forceReload THEN NoConfig ELSE persisted
  /\ UNCHANGED callArgs

UpdateConfig(updates, merge) ==
  /\ CfgCommit("updateConfig", updateConfig(Manager, updates, merge))
  /\ Persist(updateConfig(Manager, updates, merge))
  /\ UNCHANGED callArgs

UpdateConfigProperty(pathParts, value) ==
  /\ CfgCommit("updateConfigProperty",
               updateConfigProperty(Manager, pathParts, value))
  /\ Persist(updateConfigProperty(Manager, pathParts, value))
  /\ UNCHANGED callArgs

ImportConfig(data) ==
  /\ CfgCommit("importConfig", importConfig(Manager, data))
  /\ Persist(importConfig(Manager, data))
  /\ UNCHANGED callArgs

ResetConfig ==
  /\ CfgCommit("resetConfig", resetConfig(Manager))
  /\ persisted' = NoConfig
  /\ UNCHANGED callArgs

\* observe(configName, callback); the page keeps the function it returns
Observe(cb) ==
  /\ subs[cb] < MaxSubs
  /\ observers' = observers \cup {cb}
  /\ subs' = [subs EXCEPT ![cb] = @ + 1]
  /\ registered' = registered \cup {cb}
  /\ cfgLast' = [NoCall EXCEPT !.op = "observe"]
  /\ UNCHANGED <<configs, loadedConfigs, localStorage, now, online, persisted>>
  /\ UNCHANGED serverVars
  /\ UNCHANGED fmtVars
  /\ UNCHANGED restVars

\* the page calls one of the unsubscribe functions it keeps for cb
Unsubscribe(cb) ==
  /\ subs[cb] > 0
  /\ observers' = observers \ {cb}
  /\ subs' = [subs EXCEPT ![cb] = @ - 1]
  /\ registered' = registered \ {cb}
  /\ cfgLast' = [NoCall EXCEPT !.op = "unsubscribe"]
  /\ UNCHANGED <<configs, loadedConfigs, localStorage, now, online, persisted>>
  /\ UNCHANGED serverVars
  /\ UNCHANGED fmtVars
  /\ UNCHANGED restVars

\* the page is loaded again: window.ConfigManager = new ConfigManager()
Reload ==
  /\ configs' = NoConfig
  /\ loadedConfigs' = FALSE
  /\ observers' = {}
  /\ subs' = [cb \in Callbacks |-> 0]
  /\ registered' = {}
  /\ cfgLast' = [NoCall EXCEPT !.op = "reload"]
  /\ UNCHANGED <<localStorage, now, online, persisted>>
  /\ UNCHANGED serverVars
  /\ UNCHANGED fmtVars
  /\ UNCHANGED restVars

\* time passes
Tick ==
  /\ now < MaxTicks * TickMs
  /\ now' = now + TickMs
  /\ UNCHANGED <<configs, loadedConfigs, localStorage, observers, subs,
                 registered, online, persisted, cfgLast>>
  /\ UNCHANGED serverVars
  /\ UNCHANGED fmtVars
  /\ UNCHANGED restVars

\* the server that holds the config file goes away or comes back
SetOnline ==
  /\ online' = ~online
  /\ UNCHANGED <<configs, loadedConfigs, localStorage, observers, subs,
                 registered, now, persisted, cfgLast>>
  /\ UNCHANGED serverVars
  /\ UNCHANGED fmtVars
  /\ UNCHANGED restVars

InitConfig ==
  /\ CfgIdle
  /\ files = InitFiles(<<>>, <<>>, 0)
  /\ pre = InitFiles(<<>>, <<>>, 0)
  /\ present = FileNames
  /\ readonly = {}
  /\ ServerIdle
  /\ FmtIdle
  /\ RestIdle

NextConfig ==
  \/ \E forceReload \in BOOLEAN : LoadConfig(forceReload)
  \/ \E updates \in Updates, merge \in BOOLEAN : UpdateConfig(updates, merge)
  \/ \E pathParts \in Paths, value \in Values :
       UpdateConfigProperty(pathParts, value)
  \/ \E data \in Imports : ImportConfig(data)
  \/ ResetConfig
  \/ \E cb \in Callbacks : Observe(cb)
  \/ \E cb \in Callbacks : Unsubscribe(cb)
  \/ Reload
  \/ Tick
  \/ SetOnline

SpecConfig == InitConfig /\ [][NextConfig]_vars

(***************************************************************************)
(* The same page with the arguments of its loadConfig and                  *)
(* updateConfigProperty calls kept in callArgs                             *)
(***************************************************************************)
CallLoadConfig(forceReload) ==
  /\ CfgCommit("loadConfig", loadConfig(Manager, forceReload))
  /\ persisted' = IF forceReload THEN NoConfig ELSE persisted
  /\ callArgs' = [op |-> "loadConfig", force |-> forceReload,
                  stored |-> localStorage, at |-> now]

CallUpdateConfigProperty(pathParts, value) ==
  /\ CfgCommit("updateConfigProperty",
               updateConfigProperty(Manager, pathParts, value))
  /\ Persist(updateConfigProperty(Manager, pathParts, value))
  /\ callArgs' = [op |-> "updateConfigProperty", pathParts |-> pathParts,
                  value |-> value, stored |-> localStorage, at |-> now]

\* loads, with imports, page loads, the clock and the server's availability
NextCache ==
  \/ \E forceReload \in BOOLEAN : CallLoadConfig(forceReload)
  \/ \E data \in Imports : ImportConfig(data)
  \/ Reload
  \/ Tick
  \/ SetOnline

SpecCache == InitConfig /\ [][NextCache]_vars

\* property updates, with loads, imports, page loads and the server's
\* availability
NextProperty ==
  \/ \E pathParts \in Paths, value \in Values :
       CallUpdateConfigProperty(pathParts, value)
  \/ \E forceReload \in BOOLEAN : LoadConfig(forceReload)
  \/ \E data \in Imports : ImportConfig(data)
  \/ Reload
  \/ SetOnline

SpecProperty == InitConfig /\ [][NextProperty]_vars

(***************************************************************************)
(* OpenBankDataAPI and the data-manipulation interface on one page.  Below *)
(* them the ConfigManager caches each configuration on its first load: a   *)
(* later loadConfig returns the cached object, which the API changes in    *)
(* place.  The page starts with an empty localStorage, so a first load     *)
(* that cannot fetch the file throws.  Amounts and balances are integers   *)
(* or NaN.                                                                 *)
(***************************************************************************)
MaxAdds == 3
MaxAnswer == 2

\* recentTransactions.slice(0, 50)
MaxTransactions == 50

AccountIds == {"acc_main"}

\* the data-account-id of the buttons of the page
Buttons == {"acc_main", "acc_gone"}

\* accounts in the accounts config file
FileAccounts ==
  [id \in AccountIds |-> [balance |-> Num(5), availableBalance |-> Num(5)]]

\* recentTransactions of a transactions config file with n entries, newest
\* first; seq orders the transactions by the time they were made
FileTransactions(n) ==
  [i \in 1..n |-> [accountId |-> "acc_main", amount |-> Num(0), seq |-> 0 - i]]

FileLengths ==
  {0, MaxTransactions - 1, MaxTransactions, MaxTransactions + 1}

\* loadConfig as these calls see it: the cached data, or the file's on the
\* first load; ok = FALSE when it throws
Cached(data) == [t |-> "cached", data |-> data]

ApiLoad(cached, file) ==
  IF cached.t = "cached" THEN [ok |-> TRUE, data |-> cached.data]
  ELSE IF online THEN [ok |-> TRUE, data |-> file]
  ELSE [ok |-> FALSE, data |-> <<>>]

\* Number.prototype.toString of an integer or NaN
RECURSIVE DigitsOf(_)
DigitsOf(n) ==
  IF n < 10 THEN <<CHOOSE c \in Digits : c = ToString(n)>>
  ELSE Append(DigitsOf(n \div 10), CHOOSE c \in Digits : c = ToString(n % 10))

NumberToString(v) ==
  IF v.t = "nan" THEN <<"N", "a", "N">>
  ELSE IF v.v < 0 THEN <<"-">> \o DigitsOf(0 - v.v)
  ELSE DigitsOf(v.v)

\* the value of a sequence of digits
RECURSIVE DigitsValue(_)
DigitsValue(d) ==
  IF d = <<>> THEN 0
  ELSE 10 * DigitsValue(SubSeq(d, 1, Len(d) - 1))
         + (CHOOSE n \in 0..9 : ToString(n) = d[Len(d)])

\* the longest prefix of digits
RECURSIVE DigitPrefix(_)
DigitPrefix(s) ==
  IF s # <<>> /\ Head(s) \in Digits
  THEN <<Head(s)>> \o DigitPrefix(Tail(s))
  ELSE <<>>

Unsigned(t) == IF t # <<>> /\ Head(t) \in {"+", "-"} THEN Tail(t) ELSE t

Signed(t, n) == IF t # <<>> /\ Head(t) = "-" THEN Num(0 - n) ELSE Num(n)

\* parseFloat(s) of a text without "." and exponent: leading white space is
\* skipped, then an optional sign and the longest run of digits are read
ParseFloat(s) ==
  IF DigitPrefix(Unsigned(TrimStart(s))) = <<>> THEN NaN
  ELSE Signed(TrimStart(s), DigitsValue(DigitPrefix(Unsigned(TrimStart(s)))))

\* Number(s) of such a text: white space around it is dropped, the empty
\* text is 0, and the rest must be a number from end to end
ToNumber(s) ==
  IF Trim(s) = <<>> THEN Num(0)
  ELSE IF /\ Unsigned(Trim(s)) # <<>>
          /\ DigitPrefix(Unsigned(Trim(s))) = Unsigned(Trim(s))
  THEN Signed(Trim(s), DigitsValue(Unsigned(Trim(s))))
  ELSE NaN

\* isNaN(s)
IsNaNText(s) == ToNumber(s) = NaN

\* x < 0
LessThanZero(v) == v.t = "num" /\ v.v < 0

\* parseFloat(x) of a number x
ParseFloatOfNumber(v) == ParseFloat(NumberToString(v))

\* recentTransactions.unshift(newTransaction)
Unshift(list, tx) == <<tx>> \o list

KeepRecentAll(list) == list

\* if (length > 50) recentTransactions = recentTransactions.slice(0, 50)
KeepRecent(list) ==
  IF Len(list) > MaxTransactions THEN SubSeq(list, 1, MaxTransactions)
  ELSE list

NewTransaction(accountId, amount) ==
  [accountId |-> accountId, amount |-> amount, seq |-> Len(added) + 1]

\* addTransaction after loadConfig('transactions') returned l
AddTo(l, tx) ==
  IF l.ok
  THEN /\ transactionsCfg' = Cached(KeepRecent(Unshift(l.data, tx)))
       /\ added' = Append(added, tx)
  ELSE UNCHANGED <<transactionsCfg, added>>

\* OpenBankData.addTransaction({accountId, amount, ...})
AddTransaction(accountId, amount) ==
  /\ Len(added) < MaxAdds
  /\ AddTo(ApiLoad(transactionsCfg, txFile), NewTransaction(accountId, amount))
  /\ UNCHANGED <<accountsCfg, txFile, editLast>>
  /\ UNCHANGED serverVars
  /\ UNCHANGED fmtVars
  /\ UNCHANGED cfgVars
  /\ UNCHANGED raceVars
  /\ UNCHANGED callArgs
  /\ UNCHANGED quickVars
  /\ UNCHANGED giroVars

\* accounts[accountIndex].balance = parseFloat(newBalance), and the same for
\* availableBalance
updateAccountBalance(accounts, accountId, newBalance) ==
  [accounts EXCEPT ![accountId] =
     [@ EXCEPT !.balance = ParseFloatOfNumber(newBalance),
               !.availableBalance = ParseFloatOfNumber(newBalance)]]

\* what the user answers to prompt(): Cancel, or a text
Cancelled == [cancelled |-> TRUE, text |-> <<>>]
PromptChars == {"-", "7", "a", " "}
Answers ==
  {Cancelled}
    \cup {[cancelled |-> FALSE, text |-> t] : t \in SeqsUpTo(PromptChars, MaxAnswer)}

\* the checks of handleEditBalance between getAccount and
\* updateAccountBalance
Stores(accounts, accountId, answer) ==
  /\ accountId \in DOMAIN accounts
  /\ ~answer.cancelled
  /\ ~(IsNaNText(answer.text) \/ LessThanZero(ParseFloat(answer.text)))

\* handleEditBalance after getAccount's loadConfig('accounts') returned l
EditWith(l, accountId, answer) ==
  /\ accountsCfg' =
       IF ~l.ok THEN accountsCfg
       ELSE IF Stores(l.data, accountId, answer)
       THEN Cached(updateAccountBalance(l.data, accountId,
                                        ParseFloat(answer.text)))
       ELSE Cached(l.data)
  /\ editLast' = [op |-> "handleEditBalance", accountId |-> accountId,
                  answer |-> answer, before |-> l.data,
                  stored |-> l.ok /\ Stores(l.data, accountId, answer)]

\* a click on an edit-balance button and the user's answer to the prompt
HandleEditBalance(accountId, answer) ==
  /\ EditWith(ApiLoad(accountsCfg, FileAccounts), accountId, answer)
  /\ UNCHANGED <<transactionsCfg, txFile, added>>
  /\ UNCHANGED serverVars
  /\ UNCHANGED fmtVars
  /\ UNCHANGED cfgVars
  /\ UNCHANGED raceVars
  /\ UNCHANGED callArgs
  /\ UNCHANGED quickVars
  /\ UNCHANGED giroVars

\* the server that holds the config files goes away or comes back
ApiSetOnline ==
  /\ online' = ~online
  /\ UNCHANGED <<configs, loadedConfigs, localStorage, observers, subs,
                 registered, now, persisted, cfgLast>>
  /\ UNCHANGED serverVars
  /\ UNCHANGED fmtVars
  /\ UNCHANGED restVars

InitApi ==
  /\ files = InitFiles(<<>>, <<>>, 0)
  /\ pre = InitFiles(<<>>, <<>>, 0)
  /\ present = FileNames
  /\ readonly = {}
  /\ ServerIdle
  /\ FmtIdle
  /\ CfgIdle
  /\ RaceIdle
  /\ callArgs = NoArgs
  /\ accountsCfg = NoConfig
  /\ transactionsCfg = NoConfig
  /\ \E n \in FileLengths : txFile = FileTransactions(n)
  /\ added = <<>>
  /\ editLast = NoEdit
  /\ QuickIdle
  /\ GiroIdle

\* the amounts of the transactions a page adds
Amounts == {Num(0 - 1), Num(2)}

NextTransactions ==
  \/ \E accountId \in Buttons, amount \in Amounts :
       AddTransaction(accountId, amount)
  \/ ApiSetOnline

SpecTransactions == InitApi /\ [][NextTransactions]_vars

NextEdit ==
  \/ \E accountId \in Buttons, answer \in Answers :
       HandleEditBalance(accountId, answer)
  \/ ApiSetOnline

SpecEdit == InitApi /\ [][NextEdit]_vars

(***************************************************************************)
(* Two addQuickTransaction / handleAddTransaction calls on one account,    *)
(* the second started before the first has finished.  A call gives way at  *)
(* its awaits: addTransaction, getAccount, and inside updateAccountBalance *)
(* the getAccounts that precedes the assignment of the balance.  The       *)
(* updateConfig that follows the assignment finds the configuration cached *)
(* and runs to its end without giving way.  Both configurations have been  *)
(* loaded by the DOMContentLoaded handler.                                 *)
(***************************************************************************)
\* a + b of numbers
Plus(a, b) == IF a.t = "num" /\ b.t = "num" THEN Num(a.v + b.v) ELSE NaN

\* call i ends
QuickEnd(i) == qpc' = [qpc EXCEPT ![i] = "done"]

\* addTransaction of call i after loadConfig('transactions') returned l; a
\* rejection ends the call
QuickAddWith(i, l) ==
  /\ AddTo(l, NewTransaction(qcall[i].accountId, qcall[i].amount))
  /\ qpc' = [qpc EXCEPT ![i] = IF l.ok THEN "getAccount" ELSE "done"]

\* await api.addTransaction({accountId, amount, ...})
QuickAdd(i) ==
  /\ qpc[i] = "addTransaction"
  /\ QuickAddWith(i, ApiLoad(transactionsCfg, txFile))
  /\ UNCHANGED <<accountsCfg, txFile, editLast, qcall, qnew>>
  /\ UNCHANGED serverVars
  /\ UNCHANGED fmtVars
  /\ UNCHANGED cfgVars
  /\ UNCHANGED raceVars
  /\ UNCHANGED callArgs
  /\ UNCHANGED giroVars

\* getAccount of call i after loadConfig('accounts') returned l: the call
\* goes on to updateAccountBalance(accountId, account.balance + amount), which
\* awaits getAccounts; a rejection or a missing account ends the call
QuickReadWith(i, l) ==
  IF l.ok /\ qcall[i].accountId \in DOMAIN l.data
  THEN /\ qnew' = [qnew EXCEPT ![i] =
                     Plus(l.data[qcall[i].accountId].balance, qcall[i].amount)]
       /\ qpc' = [qpc EXCEPT ![i] = "getAccounts"]
       /\ accountsCfg' = Cached(l.data)
  ELSE /\ QuickEnd(i)
       /\ UNCHANGED <<qnew, accountsCfg>>

\* const account = await api.getAccount(accountId)
QuickRead(i) ==
  /\ qpc[i] = "getAccount"
  /\ QuickReadWith(i, ApiLoad(accountsCfg, FileAccounts))
  /\ UNCHANGED <<transactionsCfg, txFile, added, editLast, qcall>>
  /\ UNCHANGED serverVars
  /\ UNCHANGED fmtVars
  /\ UNCHANGED cfgVars
  /\ UNCHANGED raceVars
  /\ UNCHANGED callArgs
  /\ UNCHANGED giroVars

\* updateAccountBalance of call i after its getAccounts returned l
QuickWriteWith(i, l) ==
  /\ accountsCfg' =
       IF l.ok /\ qcall[i].accountId \in DOMAIN l.data
       THEN Cached(updateAccountBalance(l.data, qcall[i].accountId, qnew[i]))
       ELSE accountsCfg
  /\ QuickEnd(i)

\* the rest of updateAccountBalance: the assignments and updateConfig
QuickWrite(i) ==
  /\ qpc[i] = "getAccounts"
  /\ QuickWriteWith(i, ApiLoad(accountsCfg, FileAccounts))
  /\ UNCHANGED <<transactionsCfg, txFile, added, editLast, qcall, qnew>>
  /\ UNCHANGED serverVars
  /\ UNCHANGED fmtVars
  /\ UNCHANGED cfgVars
  /\ UNCHANGED raceVars
  /\ UNCHANGED callArgs
  /\ UNCHANGED giroVars

\* the functions that add a transaction and then adjust the balance
Adders == {"addQuickTransaction", "handleAddTransaction"}

\* two calls have been made on acc_main
InitQuick ==
  /\ files = InitFiles(<<>>, <<>>, 0)
  /\ pre = InitFiles(<<>>, <<>>, 0)
  /\ present = FileNames
  /\ readonly = {}
  /\ ServerIdle
  /\ FmtIdle
  /\ CfgIdle
  /\ RaceIdle
  /\ callArgs = NoArgs
  /\ accountsCfg = Cached(FileAccounts)
  /\ \E n \in FileLengths :
       /\ txFile = FileTransactions(n)
       /\ transactionsCfg = Cached(FileTransactions(n))
  /\ added = <<>>
  /\ editLast = NoEdit
  /\ qpc = [i \in Calls |-> "addTransaction"]
  /\ qcall \in [Calls -> {[via |-> f, accountId |-> "acc_main", amount |-> a] :
                            f \in Adders, a \in Amounts}]
  /\ qnew = [i \in Calls |-> [t |-> "none"]]
  /\ GiroIdle

NextQuick ==
  \/ \E i \in Calls : QuickAdd(i)
  \/ \E i \in Calls : QuickRead(i)
  \/ \E i \in Calls : QuickWrite(i)

SpecQuick == InitQuick /\ [][NextQuick]_vars

(***************************************************************************)
(* The girobox script.  Loading a page runs the top level of the script;   *)
(* DOMContentLoaded then runs giroboxActions, which starts an interval     *)
(* whose callback runs once, 100 ms later, and clears it.                  *)
(***************************************************************************)
\* s.includes(sub) on texts
Includes(s, sub) ==
  \E i \in 0..(Len(s) - Len(sub)) : SubSeq(s, i + 1, i + Len(sub)) = sub

TrueText == <<"t", "r", "u", "e">>

\* the values other scripts leave in mbisCustomer: none, btoa("true"),
\* btoa("false"), and a text that is not base64
CustomerItems == {NoItem, "dHJ1ZQ==", "ZmFsc2U=", "%"}

\* atob(item) throws InvalidCharacterError
AtobThrows(item) == item = "%"

\* atob(item); getItem's null is converted to the text "null", which is
\* base64 for three bytes
Atob(item) ==
  CASE item = "dHJ1ZQ==" -> TrueText
    [] item = "ZmFsc2U=" -> <<"f", "a", "l", "s", "e">>
    [] item = NoItem -> <<"x9e", "xe9", "e">>

\* href.split('?'): the parts between the "?"
RECURSIVE SplitAt(_, _)
SplitAt(parts, current) ==
  IF parts = <<>> THEN <<current>>
  ELSE IF Head(parts) = "?" THEN <<current>> \o SplitAt(Tail(parts), <<>>)
  ELSE SplitAt(Tail(parts), Append(current, Head(parts)))

\* href.split('?').includes(segment)
HasSegment(url, segment) ==
  \E i \in DOMAIN SplitAt(url, <<>>) : SplitAt(url, <<>>)[i] = <<segment>>

\* the pages a user opens
Urls ==
  {<<"page">>,
   <<"page", "?", "segment=client">>,
   <<"page", "?", "segment=prospect">>,
   <<"page", "?", "utm=1&", "segment=client">>,
   <<"page", "?", "segment=client", "?", "segment=prospect">>}

\* the number of wrappers of one kind a page holds
WrapperCounts == {0, 1, 2}

\* !item && localStorage.setItem(name, value)
DefaultTo(item, value) == IF item = NoItem THEN value ELSE item

\* the user opens a page: the top level of the script runs
LoadPage(url) ==
  /\ shouldShowClient' = DefaultTo(shouldShowClient, "false")
  /\ shouldShowProspect' = DefaultTo(shouldShowProspect, "true")
  /\ href' = url
  /\ intervalGirobox' = "waiting"
  /\ isCustomer' = <<>>
  /\ hasSegmentClient' = FALSE
  /\ hasSegmentProspect' = FALSE
  /\ wrappers' = NoWrappers
  /\ UNCHANGED <<mbisCustomer, decided>>
  /\ UNCHANGED serverVars
  /\ UNCHANGED fmtVars
  /\ UNCHANGED cfgVars
  /\ UNCHANGED <<raceVars, callArgs, apiVars, quickVars>>

\* another script of the site stores the customer flag
StoreCustomer(item) ==
  /\ mbisCustomer' = item
  /\ UNCHANGED <<shouldShowClient, shouldShowProspect, href, intervalGirobox,
                 isCustomer, hasSegmentClient, hasSegmentProspect, wrappers,
                 decided>>
  /\ UNCHANGED serverVars
  /\ UNCHANGED fmtVars
  /\ UNCHANGED cfgVars
  /\ UNCHANGED <<raceVars, callArgs, apiVars, quickVars>>

\* DOMContentLoaded: giroboxActions up to setInterval
GiroboxActions ==
  /\ intervalGirobox = "waiting"
  /\ IF AtobThrows(mbisCustomer)
     THEN /\ intervalGirobox' = "threw"
          /\ UNCHANGED <<isCustomer, hasSegmentClient, hasSegmentProspect>>
     ELSE /\ intervalGirobox' = "set"
          /\ isCustomer' = Atob(mbisCustomer)
          /\ hasSegmentClient' = HasSegment(href, "segment=client")
          /\ hasSegmentProspect' = HasSegment(href, "segment=prospect")
  /\ UNCHANGED <<shouldShowClient, shouldShowProspect, mbisCustomer, href,
                 wrappers, decided>>
  /\ UNCHANGED serverVars
  /\ UNCHANGED fmtVars
  /\ UNCHANGED cfgVars
  /\ UNCHANGED <<raceVars, callArgs, apiVars, quickVars>>

ShowsClientWithoutWrapper(clients) ==
  hasSegmentClient \/ (Includes(isCustomer, TrueText) /\ ~hasSegmentProspect)

\* clients.length && (hasSegmentClient ||
\*                    (isCustomer.includes('true') && !hasSegmentProspect))
ShowsClient(clients) ==
  /\ clients > 0
  /\ hasSegmentClient \/ (Includes(isCustomer, TrueText) /\ ~hasSegmentProspect)

\* the callback of the interval on a page with the given numbers of
\* .girobox-client-wrapper and .girobox-prospect-wrapper elements
IntervalCallback(clients, prospects) ==
  /\ intervalGirobox = "set"
  /\ intervalGirobox' = "cleared"
  /\ wrappers' = [clients |-> clients, prospects |-> prospects]
  /\ IF prospects > 0
     THEN /\ shouldShowClient' = IF ShowsClient(clients) THEN "true" ELSE "false"
          /\ shouldShowProspect' = IF ShowsClient(clients) THEN "false" ELSE "true"
          /\ decided' = [t |-> "run", href |-> href, isCustomer |-> isCustomer,
                         clients |-> clients, prospects |-> prospects]
     ELSE UNCHANGED <<shouldShowClient, shouldShowProspect, decided>>
  /\ UNCHANGED <<mbisCustomer, href, isCustomer, hasSegmentClient,
                 hasSegmentProspect>>
  /\ UNCHANGED serverVars
  /\ UNCHANGED fmtVars
  /\ UNCHANGED cfgVars
  /\ UNCHANGED <<raceVars, callArgs, apiVars, quickVars>>

InitGiro ==
  /\ files = InitFiles(<<>>, <<>>, 0)
  /\ pre = InitFiles(<<>>, <<>>, 0)
  /\ present = FileNames
  /\ readonly = {}
  /\ ServerIdle
  /\ FmtIdle
  /\ CfgIdle
  /\ RestIdle

NextGiro ==
  \/ \E url \in Urls : LoadPage(url)
  \/ \E item \in CustomerItems : StoreCustomer(item)
  \/ GiroboxActions
  \/ \E clients \in WrapperCounts, prospects \in WrapperCounts :
       IntervalCallback(clients, prospects)

SpecGiro == InitGiro /\ [][NextGiro]_vars

(***************************************************************************)
(* Two update requests in flight at once.  A request gives way to the      *)
(* other at each await of the handler: loadHTMLFile, the three global      *)
(* updates of updateBalanceValues, and saveHTMLFile.  The switch over      *)
(* fileType runs without an await right before saveHTMLFile serialises $,  *)
(* so it belongs to the save step.  Both requests name the same fileType.  *)
(***************************************************************************)
T_9 == <<"9">>

\* request 1 writes 7 and request 2 writes 9 into the fields they name
RaceValue == [i \in Requests |-> IF i = 1 THEN T_7 ELSE T_9]

RaceRecords(fileType, v) ==
  UNION {[S -> {v}] :
           S \in {F \in SUBSET FieldsOf(fileType) : Cardinality(F) <= MaxFields}}

RaceFile(i) == HTML_FILES[rreq[i].fileType]

\* the state the step operators of updateBalanceValues pass on
RaceState(i) == [fs |-> files, ok |-> TRUE, nb |-> rnb[i]]

\* request i answers with resp and ends
RaceEnd(i, response) ==
  /\ rpc' = [rpc EXCEPT ![i] = "done"]
  /\ rresp' = [rresp EXCEPT ![i] = response]

\* const $ = await loadHTMLFile(fileType)
RaceLoad(i) ==
  /\ rpc[i] = "load"
  /\ IF CanLoad(rreq[i].fileType)
     THEN /\ rloaded' = [rloaded EXCEPT ![i] = files[RaceFile(i)]]
          /\ rsnap' = [rsnap EXCEPT ![i] = files[RaceFile(i)]]
          /\ rnb' = [rnb EXCEPT ![i] = rreq[i].balances]
          /\ rpc' = [rpc EXCEPT ![i] = "cardDigits"]
          /\ UNCHANGED rresp
     ELSE /\ RaceEnd(i, ErrorBody(500))
          /\ UNCHANGED <<rloaded, rsnap, rnb>>
  /\ UNCHANGED <<files, rreq, rlast>>
  /\ UNCHANGED <<present, readonly, req, resp, pre, nreq, ext>>
  /\ UNCHANGED fmtVars
  /\ UNCHANGED cfgVars
  /\ UNCHANGED callArgs
  /\ UNCHANGED apiVars
  /\ UNCHANGED quickVars
  /\ UNCHANGED giroVars

\* a global update of request i returned s = [fs, ok, nb]
RaceGlobal(i, s, next) ==
  /\ files' = s.fs
  /\ rnb' = [rnb EXCEPT ![i] = s.nb]
  /\ IF s.ok
     THEN /\ rpc' = [rpc EXCEPT ![i] = next]
          /\ UNCHANGED rresp
     ELSE RaceEnd(i, ErrorBody(500))
  /\ UNCHANGED <<rreq, rloaded, rsnap, rlast>>
  /\ UNCHANGED <<present, readonly, req, resp, pre, nreq, ext>>
  /\ UNCHANGED fmtVars
  /\ UNCHANGED cfgVars
  /\ UNCHANGED callArgs
  /\ UNCHANGED apiVars
  /\ UNCHANGED quickVars
  /\ UNCHANGED giroVars

\* await updateCardDigitsGlobally(cardLastDigits), when the guard holds
RaceCardDigits(i) ==
  /\ rpc[i] = "cardDigits"
  /\ RaceGlobal(i, GlobalCardDigitsStep(files, rnb[i], rreq[i].fileType),
                "accountBalance")

\* await updateAccountBalanceGlobally(accountTotalBalance), when the guard holds
RaceAccountBalance(i) ==
  /\ rpc[i] = "accountBalance"
  /\ RaceGlobal(i, GlobalAccountBalanceStep(RaceState(i), rreq[i].fileType),
                "avatarName")

\* await updateAvatarNameGlobally(avatarName), when the guard holds
RaceAvatarName(i) ==
  /\ rpc[i] = "avatarName"
  /\ RaceGlobal(i, GlobalAvatarNameStep(RaceState(i)), "save")

saveHTMLFileNoWrite(fs, doc, fileType) == fs

\* fs.writeFile(fileName, $.html()): the file becomes the serialised tree
saveHTMLFile(fs, doc, fileType) == [fs EXCEPT ![HTML_FILES[fileType]] = doc]

\* u = [doc, fs, ok] is what the switch over fileType left
RaceFinish(i, u) ==
  /\ rsnap' = [rsnap EXCEPT ![i] = u.doc]
  /\ IF u.ok /\ CanSave(rreq[i].fileType)
     THEN /\ files' = saveHTMLFile(files, u.doc, rreq[i].fileType)
          /\ rlast' = i
          /\ RaceEnd(i, SuccessBody(rreq[i].balances, rreq[i].fileType))
     ELSE /\ RaceEnd(i, ErrorBody(500))
          /\ UNCHANGED <<files, rlast>>
  /\ UNCHANGED <<rreq, rloaded, rnb>>
  /\ UNCHANGED <<present, readonly, req, resp, pre, nreq, ext>>
  /\ UNCHANGED fmtVars
  /\ UNCHANGED cfgVars
  /\ UNCHANGED callArgs
  /\ UNCHANGED apiVars
  /\ UNCHANGED quickVars
  /\ UNCHANGED giroVars

\* the switch over fileType, then await saveHTMLFile($, fileType)
RaceSave(i) ==
  /\ rpc[i] = "save"
  /\ RaceFinish(i, PerFileStep(rsnap[i], RaceState(i), rreq[i].fileType))

\* two clients have posted to /api/update-balances for the same fileType
InitRace ==
  /\ files = InitFiles(Copies(MaxNodes, T_5), TagsInside, MaxNodes)
  /\ pre = InitFiles(Copies(MaxNodes, T_5), TagsInside, MaxNodes)
  /\ present = FileNames
  /\ readonly = {}
  /\ ServerIdle
  /\ FmtIdle
  /\ CfgIdle
  /\ \E fileType \in FileTypes :
       \E b1 \in RaceRecords(fileType, RaceValue[1]),
          b2 \in RaceRecords(fileType, RaceValue[2]) :
         rreq = [i \in Requests |->
                   [fileType |-> fileType,
                    balances |-> IF i = 1 THEN b1 ELSE b2]]
  /\ rpc = [i \in Requests |-> "load"]
  /\ rloaded = [i \in Requests |-> NoDoc]
  /\ rsnap = [i \in Requests |-> NoDoc]
  /\ rnb = [i \in Requests |-> <<>>]
  /\ rresp = [i \in Requests |-> NoResp]
  /\ rlast = 0
  /\ callArgs = NoArgs
  /\ ApiIdle
  /\ QuickIdle
  /\ GiroIdle

NextRace ==
  \/ \E i \in Requests : RaceLoad(i)
  \/ \E i \in Requests : RaceCardDigits(i)
  \/ \E i \in Requests : RaceAccountBalance(i)
  \/ \E i \in Requests : RaceAvatarName(i)
  \/ \E i \in Requests : RaceSave(i)

SpecRace == InitRace /\ [][NextRace]_vars

(***************************************************************************)
(* Properties                                                              *)
(***************************************************************************)
OB == HTML_FILES["openbank"]
DD == HTML_FILES["directDebits"]
CA == HTML_FILES["cards"]
TR == HTML_FILES["transfers"]

\* the last request was an update with a balances object
UpdateHandled == req.kind = "update" /\ req.bodyOk

\* ... and it was answered with success
UpdateOK == UpdateHandled /\ resp.success

\* the card-digits selector of each document type
CardKeyOf(fileType) ==
  CASE fileType = "openbank" -> "obCardDigits"
    [] fileType = "directDebits" -> "ddCardDigits"
    [] fileType = "cards" -> "cardsCardDigits"
    [] fileType = "transfers" -> "trCardDigits"

\* every file can be read and written
NoFailures == present = FileNames /\ readonly = {}

AllNodesAre(nodes, text) == \A i \in DOMAIN nodes : nodes[i] = text

\* the value is an amount as the dashboard shows it: trimmed and numeric
AmountValue(v) == IsAmountText(v) /\ Trim(v) = v

\* C1: after a successful update of openbank or transfers that carries a
\* non-empty cardLastDigits d, the card-digits nodes of Openbank.html and of
\* Openbank-transfers.html all hold the dotted form of d.
C1_CardDigitsInBothFiles ==
  (/\ UpdateOK
   /\ NoFailures
   /\ req.fileType \in {"openbank", "transfers"}
   /\ Truthy(req.balances, "cardLastDigits"))
  => /\ AllNodesAre(files[OB].obCardDigits,
                    FormatCardDigits(req.balances["cardLastDigits"]))
     /\ AllNodesAre(files[TR].trCardDigits,
                    FormatCardDigits(req.balances["cardLastDigits"]))

\* C2: after a successful update that carries a non-empty avatarName n, every
\* avatar node (one that showed a name) of every scanned HTML file, the
\* requested one included, has text n.
C2_AvatarNameEverywhere ==
  (/\ UpdateOK
   /\ NoFailures
   /\ Truthy(req.balances, "avatarName"))
  => \A name \in ScannedFiles :
       \A i \in DOMAIN files[name].avatarNameElements :
         Trim(pre[name].avatarNameElements[i]) # <<>>
           => files[name].avatarNameElements[i] = req.balances["avatarName"]

\* the selector of each first-match field of openbank
FirstMatchNodes ==
  [accountTotalBalance |-> "accountTotalElements",
   individualAccountBalance |-> "individualAccountElements",
   totalSavingsBalance |-> "totalSavingsElements"]

\* C3: an update of openbank followed by an extraction of openbank returns,
\* for every first-match field of the record whose non-empty value was written
\* to a node, the value written.
C3_RoundTrip ==
  (/\ UpdateOK
   /\ req.fileType = "openbank"
   /\ ext.success
   /\ ext.fileType = "openbank")
  => \A f \in DOMAIN FirstMatchNodes \cap DOMAIN req.balances :
       (req.balances[f] # <<>> /\ AmountIdx(pre[OB][FirstMatchNodes[f]]) # {})
         => ext.balances[f] = req.balances[f]

\* C4: handling the same update request (a record of non-empty values) a
\* second time leaves every file as the first handling left it.
C4_Idempotent ==
  (/\ UpdateOK
   /\ nreq >= 2
   /\ \A f \in DOMAIN req.balances : req.balances[f] # <<>>)
  => files = pre

\* the locate rule of a registered field matches no node of the document
NoNodeFor(doc, fileType, f) ==
  CASE f = "avatarName" -> doc.avatarNameElements = <<>>
    [] f = "cardLastDigits" -> doc[CardKeyOf(fileType)] = <<>>
    [] f = "accountTotalBalance" -> doc.accountTotalElements = <<>>
    [] f = "individualAccountBalance" -> doc.individualAccountElements = <<>>
    [] f = "totalSavingsBalance" -> doc.totalSavingsElements = <<>>
    [] f = "monthlyExpenses" -> doc.monthlyExpensesElements = <<>>
    [] f = "savingsInvestmentsTotal" -> SectionIdx(doc, "savings") = {}
    [] f = "totalLending" -> SectionIdx(doc, "lending") = {}
    [] f = "accountsBalanceAmount" -> doc.accountsBalanceElement = <<>>
    [] f = "availableAmount" -> doc.availableAmountElement = <<>>
    [] f = "availableCurrency" -> doc.availableCurrencyElement = <<>>

\* C5: an extraction returns every registered field of the document type, and
\* a field with no matching node has the default value of the registry.
C5_ExtractDefaults ==
  ext.success
  => \A f \in DOMAIN FIELD_CONFIGS[ext.fileType] :
       /\ f \in DOMAIN ext.balances
       /\ NoNodeFor(files[HTML_FILES[ext.fileType]], ext.fileType, f)
            => ext.balances[f] = FIELD_CONFIGS[ext.fileType][f]

\* C6: an update of transfers writes accountBalance into every node that
\* passes the numeric filter and into no other; an update of openbank writes
\* a single-match field into the first node that passes the filter and leaves
\* the later qualifying nodes of that selector as they were (for the totals
\* selector: when the record names no phrase-anchored field, whose node is
\* matched by the same selector).
C6_MultiAndSingleMatch ==
  UpdateOK
  => /\ (req.fileType = "transfers" /\ Truthy(req.balances, "accountBalance"))
          => \A i \in DOMAIN pre[TR].accountAmountElements :
               files[TR].accountAmountElements[i] =
                 IF i \in AmountIdx(pre[TR].accountAmountElements)
                 THEN req.balances["accountBalance"]
                 ELSE pre[TR].accountAmountElements[i]
     /\ req.fileType = "openbank"
          => \A f \in DOMAIN FirstMatchNodes \cap DOMAIN req.balances :
               LET old == pre[OB][FirstMatchNodes[f]]
                   new == files[OB][FirstMatchNodes[f]]
                   idx == AmountIdx(old)
               IN (/\ idx # {}
                   /\ f = "totalSavingsBalance"
                        => DOMAIN req.balances
                             \cap {"savingsInvestmentsTotal", "totalLending"} = {})
                  => /\ new[Min(idx)] = req.balances[f]
                     /\ \A j \in DOMAIN old \ {Min(idx)} : new[j] = old[j]

C6_Witness ==
  /\ UpdateOK
  /\ req.fileType = "openbank"
  /\ Has(req.balances, "accountTotalBalance")
  /\ {1, 2} \subseteq AmountIdx(pre[OB].accountTotalElements)
  /\ files[OB].accountTotalElements[1] = req.balances["accountTotalBalance"]
  /\ files[OB].accountTotalElements[1] # pre[OB].accountTotalElements[1]
  /\ files[OB].accountTotalElements[2] = pre[OB].accountTotalElements[2]

\* C7: the text written to a dotted-prefix target is the incoming string s
\* itself when s starts with "...", and otherwise "..." followed by s without
\* its leading dots; it always starts with "..." and formatting it again
\* changes nothing.
C7_DottedFormat ==
  fmtTarget \in FmtTargets
  => /\ StartsWith(fmtOut, Dots3)
     /\ StartsWith(fmtIn, Dots3) => fmtOut = fmtIn
     /\ ~StartsWith(fmtIn, Dots3)
          => LET rest == SubSeq(fmtOut, 4, Len(fmtOut))
             IN /\ ~StartsWith(rest, <<".">>)
                /\ \E k \in 0..Len(fmtIn) : fmtIn = Copies(k, ".") \o rest
     /\ FormatCardDigits(fmtOut) = fmtOut

C7_Witness ==
  /\ fmtTarget = "directDebits"
  /\ fmtIn = <<".", ".", "7">>
  /\ fmtOut = <<".", ".", ".", "7">>

\* C8: after an update of cardLastDigits on the cards document the
\* card-number nodes never start with dots.
C8_CardsBareDigits ==
  (/\ UpdateOK
   /\ req.fileType = "cards"
   /\ Truthy(req.balances, "cardLastDigits"))
  => \A i \in DOMAIN files[CA].cardsCardDigits :
       ~StartsWith(files[CA].cardsCardDigits[i], <<".">>)

\* C9: after an update of openbank with an amount v as accountTotalBalance, a
\* following extraction of openbank returns accountTotalBalance v, the
\* qualifying amount nodes of Openbank-transfers.html hold v, and a following
\* extraction of transfers returns accountBalance v.
C9_AccountBalancePropagates ==
  (/\ UpdateOK
   /\ req.fileType = "openbank"
   /\ Has(req.balances, "accountTotalBalance")
   /\ AmountValue(req.balances["accountTotalBalance"]))
  => LET v == req.balances["accountTotalBalance"]
         oldT == pre[TR].accountAmountElements
     IN /\ (/\ AmountIdx(pre[OB].accountTotalElements) # {}
            /\ ext.success
            /\ ext.fileType = "openbank")
             => ext.balances["accountTotalBalance"] = v
        /\ (AmountIdx(oldT) # {} /\ CanLoad("transfers") /\ CanSave("transfers"))
             => /\ \A i \in AmountIdx(oldT) :
                     files[TR].accountAmountElements[i] = v
                /\ (ext.success /\ ext.fileType = "transfers")
                     => ext.balances["accountBalance"] = v

C9_Witness ==
  /\ UpdateOK
  /\ req.fileType = "openbank"
  /\ Has(req.balances, "accountTotalBalance")
  /\ req.balances["accountTotalBalance"] = T_7
  /\ Len(pre[TR].accountAmountElements) >= 2
  /\ pre[TR].accountAmountElements[1] = Euro
  /\ pre[TR].accountAmountElements[2] = T_5
  /\ files[TR].accountAmountElements[1] = Euro
  /\ files[TR].accountAmountElements[2] = T_7
  /\ ext.success
  /\ ext.fileType = "transfers"
  /\ ext.balances["accountBalance"] = T_7

\* a card-digits update whose global step has two targets, exactly one of
\* which cannot be loaded or written
Failing == (FileNames \ present) \cup readonly

CardUpdateOneTargetFails ==
  /\ UpdateHandled
  /\ req.fileType \in {"openbank", "transfers"}
  /\ Truthy(req.balances, "cardLastDigits")
  /\ Cardinality(Failing \cap {OB, TR}) = 1

OtherTarget == CHOOSE name \in {OB, TR} : name \notin Failing

CardNodes(fs, name) ==
  IF name = OB THEN fs[OB].obCardDigits ELSE fs[TR].trCardDigits

C11_NamePropagationSkips ==
  (/\ UpdateOK
   /\ NoFailures
   /\ Truthy(req.balances, "avatarName"))
  => \A name \in ScannedFiles \ {HTML_FILES[req.fileType]} :
       LET old == pre[name].avatarNameElements
           new == files[name].avatarNameElements
           n == req.balances["avatarName"]
       IN IF old = <<>> \/ AllNodesAre(old, n)
          THEN new = old /\ name \in AvatarSkipped(pre, n)
          ELSE new # old /\ name \in AvatarUpdated(pre, n)

\* the selector that holds the node(s) of each field an update function reads
FieldSelector ==
  [openbank |->
     [accountTotalBalance |-> "accountTotalElements",
      individualAccountBalance |-> "individualAccountElements",
      totalSavingsBalance |-> "totalSavingsElements",
      savingsInvestmentsTotal |-> "totalSavingsElements",
      totalLending |-> "totalSavingsElements",
      monthlyExpenses |-> "monthlyExpensesElements",
      cardLastDigits |-> "obCardDigits",
      avatarName |-> "avatarNameElements"],
   directDebits |->
     [accountsBalanceAmount |-> "accountsBalanceElement",
      cardLastDigits |-> "ddCardDigits",
      availableAmount |-> "availableAmountElement",
      availableCurrency |-> "availableCurrencyElement",
      avatarName |-> "avatarNameElements"],
   cards |->
     [cardLastDigits |-> "cardsCardDigits",
      avatarName |-> "avatarNameElements"],
   transfers |->
     [cardLastDigits |-> "trCardDigits",
      accountBalance |-> "accountAmountElements",
      avatarName |-> "avatarNameElements"]]

\* C12: after a successful update, the nodes of every field that is absent
\* from the record (and shares its selector with no field of the record) have
\* in the requested document the text they had before the request.
C12_AbsentFieldsUntouched ==
  UpdateOK
  => LET sel == FieldSelector[req.fileType]
         name == HTML_FILES[req.fileType]
     IN \A f \in DOMAIN sel \ DOMAIN req.balances :
          (\A g \in DOMAIN sel \cap DOMAIN req.balances : sel[g] # sel[f])
            => files[name][sel[f]] = pre[name][sel[f]]

\* the fields located by the numeric filter, and by a phrase-anchored section
FilteredFields ==
  {"accountTotalBalance", "individualAccountBalance", "totalSavingsBalance",
   "accountBalance"}
SectionPhrase ==
  [savingsInvestmentsTotal |-> "savings", totalLending |-> "lending"]

\* the nodes of the document that the locate rule of field f selects for an
\* update (indices into the node list of the field's selector); for the
\* avatar name, the nodes that show a name
UpdateTargets(doc, fileType, f) ==
  LET nodes == doc[FieldSelector[fileType][f]]
  IN CASE f \in DOMAIN SectionPhrase ->
            IF SectionIdx(doc, SectionPhrase[f]) = {} THEN {}
            ELSE {Min(SectionIdx(doc, SectionPhrase[f]))}
       [] f = "accountBalance" -> AmountIdx(nodes)
       [] f \in FilteredFields \ {"accountBalance"} ->
            IF AmountIdx(nodes) = {} THEN {} ELSE {Min(AmountIdx(nodes))}
       [] f = "avatarName" -> {i \in DOMAIN nodes : Trim(nodes[i]) # <<>>}
       [] OTHER -> DOMAIN nodes

\* the text an update writes for value v of field f
WrittenText(fileType, f, v) ==
  CASE f = "cardLastDigits" /\ fileType # "cards" -> FormatCardDigits(v)
    [] f = "monthlyExpenses" -> v \o EuroSuffix
    [] OTHER -> v

\* C13: when the node of a field named in an update record is not found in
\* the requested document, the request is answered with success, that
\* field's selector is left as it was, and every other field of the record
\* whose node is found (and that shares its selector with no other field of
\* the record) holds the text written for its value.
C13_MissingNodeSkipped ==
  (/\ UpdateHandled
   /\ CanLoad(req.fileType)
   /\ CanSave(req.fileType)
   /\ \A f \in DOMAIN req.balances : req.balances[f] # <<>>)
  => LET name == HTML_FILES[req.fileType]
         sel == FieldSelector[req.fileType]
         missing == {f \in DOMAIN req.balances :
                       UpdateTargets(pre[name], req.fileType, f) = {}}
     IN missing # {}
        => /\ resp.success
           /\ \A f \in missing :
                (\A h \in DOMAIN req.balances \ {f} : sel[h] # sel[f])
                  => files[name][sel[f]] = pre[name][sel[f]]
           /\ \A g \in DOMAIN req.balances \ missing :
                (\A h \in DOMAIN req.balances \ {g} : sel[h] # sel[g])
                  => \A i \in UpdateTargets(pre[name], req.fileType, g) :
                       files[name][sel[g]][i] =
                         WrittenText(req.fileType, g, req.balances[g])

\* C14: an update request whose requested document cannot be loaded (unknown
\* fileType or missing file) or cannot be saved is answered with a failure
\* response, and when the load fails no file is changed.
C14_LoadSaveFailure ==
  (/\ UpdateHandled
   /\ ~CanLoad(req.fileType) \/ ~CanSave(req.fileType))
  => /\ ~resp.success
     /\ ~CanLoad(req.fileType) => files = pre

C14_Witness ==
  /\ UpdateHandled
  /\ req.fileType = "openbank"
  /\ OB \notin present
  /\ Truthy(req.balances, "avatarName")
  /\ AvatarUpdated(pre, req.balances["avatarName"]) # {}
  /\ resp = ErrorBody(500)
  /\ files = pre

\* C15: after resetConfig has completed successfully, the in-memory cache and
\* the localStorage entry both hold exactly the data of the config file, and
\* that data is what the call returned.
C15_ResetRestoresFile ==
  (cfgLast.op = "resetConfig" /\ cfgLast.ok)
  => /\ configs = FileData
     /\ localStorage # NoEntry
     /\ localStorage.data = FileData
     /\ cfgLast.result = FileData

C15_Witness ==
  /\ cfgLast.op = "resetConfig"
  /\ cfgLast.ok
  /\ cfgLast.before \notin {NoConfig, FileData}
  /\ configs = FileData
  /\ localStorage.data = FileData

\* C16: while the data of a completed update is to be found (no resetConfig
\* and no forced reload since), every loadConfig without forceReload, also
\* one made after a page reload at any later time, returns that data (as JSON
\* stores it).
C16_ChangesPersist ==
  (cfgLast.op = "loadConfig" /\ persisted # NoConfig)
  => /\ cfgLast.ok
     /\ JsonRoundTrip(cfgLast.result) = JsonRoundTrip(persisted)

\* the calls that run updateConfig
UpdateOps == {"updateConfig", "updateConfigProperty", "importConfig"}

\* C17 as stated: an updateConfig that completes invokes a callback exactly
\* once, with the updated configuration, when an unsubscribe function
\* returned by observe for it has not been called yet, and does not invoke a
\* callback that has none.
C17_ObserverNotifiedOnce ==
  (cfgLast.op \in UpdateOps /\ cfgLast.ok)
  => \A cb \in Callbacks :
       IF cb \in cfgLast.subscribed
       THEN cb \in cfgLast.notified /\ cfgLast.calls = <<cfgLast.result>>
       ELSE cb \notin cfgLast.notified

\* C17 amended: an updateConfig that completes invokes exactly the callbacks
\* whose latest observe came after the latest unsubscribe call for them; the
\* last invocation carries the updated configuration, and it is preceded by
\* one invocation with the file's data exactly when updateConfig found the
\* cache empty and fetched the config file.
C17_ObserverNotified ==
  (cfgLast.op \in UpdateOps /\ cfgLast.ok)
  => /\ cfgLast.notified = cfgLast.registered
     /\ Len(cfgLast.calls) \in {1, 2}
     /\ cfgLast.calls[Len(cfgLast.calls)] = cfgLast.result
     /\ Len(cfgLast.calls) = 2
          <=> (cfgLast.before = NoConfig /\ cfgLast.fetches = 1 /\ cfgLast.online)
     /\ Len(cfgLast.calls) = 2 => cfgLast.calls[1] = FileData

C17_Witness ==
  /\ cfgLast.op = "updateConfig"
  /\ cfgLast.ok
  /\ cfgLast.notified = {"cb"}
  /\ cfgLast.subscribed = {"cb"}
  /\ cfgLast.calls = <<FileData, cfgLast.result>>
  /\ cfgLast.result # FileData

\* the fields located by a plain selector
PlainFields ==
  {"cardLastDigits", "accountsBalanceAmount", "availableAmount",
   "availableCurrency", "avatarName"}

\* C18: the extraction of a plain-selector field returns the trimmed text of
\* the first matching node alone when that text is non-empty, however many
\* nodes match, and the default of the field otherwise.
C18_PlainFirstNode ==
  ext.success
  => \A f \in PlainFields \cap DOMAIN FIELD_CONFIGS[ext.fileType] :
       LET nodes == files[HTML_FILES[ext.fileType]]
                         [FieldSelector[ext.fileType][f]]
       IN ext.balances[f] =
            IF nodes # <<>> /\ Trim(nodes[1]) # <<>> THEN Trim(nodes[1])
            ELSE FIELD_CONFIGS[ext.fileType][f]

\* the default the extraction uses for each field located by the numeric
\* filter
FilteredDefault ==
  [accountTotalBalance |-> D_430_26,
   individualAccountBalance |-> D_0_00,
   totalSavingsBalance |-> D_0_00,
   accountBalance |-> D_0_00]

\* C19: the extraction of a field located by a structural selector with the
\* numeric filter returns the trimmed text of the first node, in document
\* order, whose trimmed text is non-empty, parses as a number and is not the
\* currency symbol, and the default when no node qualifies.
C19_FirstQualifyingNode ==
  ext.success
  => \A f \in FilteredFields \cap DOMAIN FieldSelector[ext.fileType] :
       LET nodes == files[HTML_FILES[ext.fileType]]
                         [FieldSelector[ext.fileType][f]]
           qualifies(i) == /\ Trim(nodes[i]) # <<>>
                           /\ ~ParseFloatIsNaN(Trim(nodes[i]))
                           /\ Trim(nodes[i]) # Euro
       IN \/ /\ \A i \in DOMAIN nodes : ~qualifies(i)
             /\ ext.balances[f] = FilteredDefault[f]
          \/ \E i \in DOMAIN nodes :
               /\ qualifies(i)
               /\ \A j \in 1..(i - 1) : ~qualifies(j)
               /\ ext.balances[f] = Trim(nodes[i])

C19_Witness ==
  /\ ext.success
  /\ ext.fileType = "openbank"
  /\ Len(files[OB].accountTotalElements) >= 2
  /\ files[OB].accountTotalElements[1] = Euro
  /\ files[OB].accountTotalElements[2] = T_7
  /\ ext.balances["accountTotalBalance"] = T_7
  /\ ext.balances["individualAccountBalance"] = T_5

\* C20: the extraction of a phrase-anchored field returns the trimmed text of
\* the first qualifying node among the nodes the secondary selector matches
\* inside the container, also when an earlier matched node of the container
\* does not qualify, and the default when no node of the container qualifies.
C20_AnchoredFirstQualifying ==
  (ext.success /\ ext.fileType = "openbank")
  => \A f \in DOMAIN SectionPhrase :
       LET nodes == files[OB].totalSavingsElements
           q == {i \in SectionIdx(files[OB], SectionPhrase[f]) :
                   IsAmountText(Trim(nodes[i]))}
       IN ext.balances[f] = IF q # {} THEN Trim(nodes[Min(q)]) ELSE D_0_00

\* C21: two update requests for the same document that interleave are not
\* mutually excluded.  Once both have completed with success the file holds
\* the parse tree of the request that saved last, and that tree is the one
\* the request itself loaded with its own fields written into it: nothing of
\* what the other request saved is merged into it.
BothSaved ==
  \A i \in Requests : rpc[i] = "done" /\ rresp[i].success

C21_LastWriteWins ==
  BothSaved
  => /\ rlast \in Requests
     /\ files[RaceFile(rlast)] = rsnap[rlast]
     /\ rsnap[rlast] =
          PerFileStep(rloaded[rlast], RaceState(rlast),
                      rreq[rlast].fileType).doc

\* both requests answered success, and a node the request that saved first
\* changed holds in the file the text that request loaded
C21_Witness ==
  /\ BothSaved
  /\ \E i \in Requests \ {rlast} :
       \E sel \in DOMAIN rsnap[i] :
         /\ rsnap[i][sel] # rloaded[i][sel]
         /\ files[RaceFile(i)][sel] = rloaded[i][sel]
         /\ rsnap[rlast][sel] = rloaded[i][sel]

\* C22: a loadConfig without forceReload performs no fetch and returns the
\* cached data when the name is in the in-memory cache.  When it is not, the
\* call returns without a fetch only with the data of a localStorage entry
\* whose timestamp is younger than cacheDuration; an entry that is not younger
\* makes the call fetch the config file, and its data is returned only when
\* that fetch has failed.
EntryYoung(entry) == callArgs.at - entry.timestamp < cacheDuration

C22_CacheBeforeFetch ==
  (cfgLast.op = "loadConfig" /\ callArgs.op = "loadConfig" /\ ~callArgs.force)
  => /\ cfgLast.before # NoConfig
          => /\ cfgLast.fetches = 0
             /\ cfgLast.ok
             /\ cfgLast.result = cfgLast.before
     /\ (cfgLast.before = NoConfig /\ cfgLast.fetches = 0)
          => /\ callArgs.stored # NoEntry
             /\ EntryYoung(callArgs.stored)
             /\ cfgLast.ok
             /\ cfgLast.result = callArgs.stored.data
     /\ (/\ cfgLast.before = NoConfig
         /\ callArgs.stored # NoEntry
         /\ ~EntryYoung(callArgs.stored))
          => /\ cfgLast.fetches = 1
             /\ cfgLast.ok
             /\ cfgLast.result =
                  IF cfgLast.online THEN FileData ELSE callArgs.stored.data

\* an entry of exactly cacheDuration is passed over for the file, and it is
\* returned when the file cannot be fetched
C22_Witness ==
  /\ cfgLast.op = "loadConfig"
  /\ callArgs.op = "loadConfig"
  /\ ~callArgs.force
  /\ cfgLast.before = NoConfig
  /\ callArgs.stored # NoEntry
  /\ callArgs.stored.data # FileData
  /\ callArgs.at - callArgs.stored.timestamp = cacheDuration
  /\ ~cfgLast.online
  /\ cfgLast.fetches = 1
  /\ cfgLast.result = callArgs.stored.data

\* C24: for a config that is loaded, updateConfigProperty(name, path, v)
\* completes, a getValue(name, path) that follows returns v, and every
\* property of the config that lies off the path keeps its value.
\* KeptOutside(old, new, pathParts): new differs from old on the path only
RECURSIVE KeptOutside(_, _, _)
KeptOutside(old, new, pathParts) ==
  IF pathParts = <<>> THEN TRUE
  ELSE /\ new.t = "obj"
       /\ \A k \in DOMAIN Members(old) \ {Head(pathParts)} :
            k \in DOMAIN new.m /\ new.m[k] = Members(old)[k]
       /\ DOMAIN new.m \subseteq DOMAIN Members(old) \cup {Head(pathParts)}
       /\ Head(pathParts) \in DOMAIN new.m
       /\ KeptOutside(IF Head(pathParts) \in DOMAIN Members(old)
                      THEN Members(old)[Head(pathParts)] ELSE EmptyObj,
                      new.m[Head(pathParts)], Tail(pathParts))

PropertyCalled ==
  /\ cfgLast.op = "updateConfigProperty"
  /\ callArgs.op = "updateConfigProperty"
  /\ cfgLast.before # NoConfig

C24_SetThenGet ==
  PropertyCalled
  => /\ cfgLast.ok
     /\ getValue(Manager, callArgs.pathParts, Null).ok
     /\ getValue(Manager, callArgs.pathParts, Null).result = callArgs.value
     /\ KeptOutside(cfgLast.before, configs, callArgs.pathParts)

\* C23: once addTransaction has added a transaction, recentTransactions
\* holds at most 50 entries, the transaction added last is at index 0, and
\* the list is the newest entries, newest first: the added transactions from
\* the last one back, then the entries of the file, cut after the 50th.
RECURSIVE Reverse(_)
Reverse(list) ==
  IF list = <<>> THEN <<>> ELSE Append(Reverse(Tail(list)), Head(list))

Newest(list, n) == SubSeq(list, 1, IF Len(list) < n THEN Len(list) ELSE n)

C23_NewestFifty ==
  added # <<>>
  => /\ transactionsCfg.t = "cached"
     /\ Len(transactionsCfg.data) <= 50
     /\ transactionsCfg.data[1] = added[Len(added)]
     /\ transactionsCfg.data = Newest(Reverse(added) \o txFile, 50)
     /\ \A i \in 1..(Len(transactionsCfg.data) - 1) :
          transactionsCfg.data[i].seq > transactionsCfg.data[i + 1].seq

\* a list that was full before the last of several additions
C23_Witness ==
  /\ Len(added) >= 2
  /\ Len(txFile) >= 50
  /\ Len(transactionsCfg.data) = 50
  /\ transactionsCfg.data[1] = added[Len(added)]
  /\ transactionsCfg.data[2] = added[Len(added) - 1]
  /\ transactionsCfg.data[50]
       \notin {txFile[i] : i \in (Len(txFile) - 1)..Len(txFile)}

\* C28: handleEditBalance stores a balance only when the prompt's answer is
\* a non-negative number: a cancelled prompt and an empty, non-numeric or
\* negative answer leave balance and availableBalance of every account as
\* they were, and every stored balance is a non-negative number.
Rejected(answer) ==
  \/ answer.cancelled
  \/ answer.text = <<>>
  \/ ParseFloat(answer.text) = NaN
  \/ LessThanZero(ParseFloat(answer.text))

C28_OnlyNonNegativeStored ==
  (editLast.op = "handleEditBalance" /\ accountsCfg.t = "cached")
  => /\ Rejected(editLast.answer) => accountsCfg.data = editLast.before
     /\ \A id \in DOMAIN accountsCfg.data :
          /\ accountsCfg.data[id].balance.t = "num"
          /\ accountsCfg.data[id].balance.v >= 0

\* C25: within one update request, a node of the requested document that a
\* global update of the request has rewritten on disk is not put back to its
\* old text by the request's final save: after a successful update no node of
\* the requested file that the global updates changed holds the text it had
\* when the request arrived.
AfterGlobalUpdates ==
  GlobalAvatarNameStep(
    GlobalAccountBalanceStep(
      GlobalCardDigitsStep(pre, req.balances, req.fileType),
      req.fileType)).fs

C25_SaveKeepsOwnWrites ==
  (UpdateOK /\ req.fileType \in FileTypes)
  => \A sel \in DOMAIN pre[HTML_FILES[req.fileType]] :
       AfterGlobalUpdates[HTML_FILES[req.fileType]][sel]
           # pre[HTML_FILES[req.fileType]][sel]
       => files[HTML_FILES[req.fileType]][sel]
            = AfterGlobalUpdates[HTML_FILES[req.fileType]][sel]

\* C27: a POST /api/update-balances whose body has no balances object is
\* answered with status 400 and success false; it reads no HTML file, so the
\* answer is the same when the file is missing, and it writes none.
C27_BadBodyRejected ==
  (req.kind = "update" /\ ~req.bodyOk)
  => /\ resp.status = 400
     /\ ~resp.success
     /\ files = pre

\* a body without balances for a document whose file is missing
C27_Witness ==
  /\ req.kind = "update"
  /\ ~req.bodyOk
  /\ req.fileType \in FileTypes
  /\ HTML_FILES[req.fileType] \notin present
  /\ resp.status = 400

\* C26: when the addQuickTransaction and handleAddTransaction calls made on
\* an account have all completed, the account's balance is its initial
\* balance plus the sum of the amounts of the transactions added.
RECURSIVE SumAmounts(_)
SumAmounts(list) ==
  IF list = <<>> THEN Num(0)
  ELSE Plus(Head(list).amount, SumAmounts(Tail(list)))

C26_BalanceIsSum ==
  (\A i \in Calls : qpc[i] = "done")
  => accountsCfg.data["acc_main"].balance
       = Plus(FileAccounts["acc_main"].balance, SumAmounts(added))

\* C29: once the girobox script has been loaded, exactly one of
\* shouldShowClient and shouldShowProspect is 'true'.  The URL has a segment
\* when the segment is one of its parts; the customer flag is true when the
\* decoded mbisCustomer contains 'true'.
ExactlyOneShown ==
  \/ shouldShowClient = "true" /\ shouldShowProspect = "false"
  \/ shouldShowClient = "false" /\ shouldShowProspect = "true"

UrlHas(url, segment) == \E i \in DOMAIN url : url[i] = segment

ClientCase(url, customer, clients, prospects) ==
  /\ clients > 0
  /\ prospects > 0
  /\ \/ UrlHas(url, "segment=client")
     \/ Includes(customer, TrueText) /\ ~UrlHas(url, "segment=prospect")

RunOver == intervalGirobox \in {"cleared", "threw"}

====
